---- MODULE Spec2Model ----
(***************************************************************************)
(* Alger pipeline server.                                                  *)
(*                                                                         *)
(* Spec    : the stand-alone WebSocket server of server/server.py: the     *)
(*           per-connection loop alger_handler, its codec and its          *)
(*           in-memory handlers over SERVER_STATE.                         *)
(* SpecApp : the app package: the handlers of app/services.py over the     *)
(*           SQLite gateway of app/persistence/database.py, the background *)
(*           coroutine _run_and_finalize_execution, and the per-connection *)
(*           dispatcher that serialises outbound frames.                   *)
(* SpecStored, SpecStandaloneStored : the two servers over state that      *)
(*           earlier requests left.                                        *)
(* SpecDag, SpecDagStandalone : execute_simplified_graph of                *)
(*           app/dag/engine.py and of DAG.py.                              *)
(* SpecCodec : AlgerMessage.to_json and AlgerMessage.parse.                *)
(* SpecUsers : two threads inside SQLitePersistenceGateway.ensure_user.    *)
(***************************************************************************)
EXTENDS Integers, Sequences, FiniteSets, TLC

\* ---------------------------------------------------------------- bounds
MaxFrames == 3     \* inbound frames read, over all connections
MaxExec == 2       \* executions created
MaxNodes == 3      \* nodes of a simplified graph handed to the DAG engine
MaxEdges == 3      \* edges of a simplified graph handed to the DAG engine

Conns == {1, 2}
ExecIds == 1..MaxExec

\* ------------------------------------------------------- protocol codes
CODE_LOGIN_OK == 200
CODE_LOGIN_UNKNOWN == 300
CODE_USER_DATA == 201
CODE_USER_DATA_ERROR == 301
CODE_PIPELINE_FULL == 202
CODE_EXECUTION_FROM_DB_OK == 203
CODE_EXECUTION_FROM_DB_ERROR == 303
CODE_EXECUTION_FROM_PAYLOAD_OK == 204
CODE_EXECUTION_FROM_PAYLOAD_ERROR == 304
CODE_STOP_EXECUTION_OK == 206
CODE_STOP_EXECUTION_ERROR == 306
CODE_PIPELINE_FINISHED_OK == 207
CODE_PIPELINE_FINISHED_ERROR == 307
CODE_MESSAGE_ID_ERROR == 395
CODE_UNKNOWN_TYPE == 396
CODE_TOO_MANY_EXECUTIONS == 397
CODE_EXECUTIONS_HALTED == 398
CODE_MAINTENANCE_MODE == 399
CLOSE_AUTH == 4401
CLOSE_SUBPROTOCOL == 4406

REQUEST_TYPES_With105 == {100, 101, 102, 103, 104, 105, 106, 107}

REQUEST_TYPES == {100, 101, 102, 103, 104, 106, 107}

\* ------------------------------------------------------------ raw frames
\* A JSON value of a header field: an integer, a string of digits, another
\* string, null, a float beyond the double range (1e999, read as infinity),
\* or the key is absent.
JInt(n) == [tag |-> "int", v |-> n]
JInf == [tag |-> "inf", v |-> 0]
JNumStr(n) == [tag |-> "numstr", v |-> n]
JStr == [tag |-> "str", v |-> 0]
JNull == [tag |-> "null", v |-> 0]
JMissing == [tag |-> "missing", v |-> 0]

\* The decoded payload object of a request, reduced to the keys the handlers
\* read.  executionId 0 stands for an absent key.
Content(login, userId, pipelineId, graph, executionId) ==
    [login |-> login, userId |-> userId, pipelineId |-> pipelineId,
     graph |-> graph, executionId |-> executionId]
EmptyContent == Content("none", "none", "none", "none", 0)

\* The content field of a frame: absent, not a string, a string that is not
\* JSON, the empty string, a string encoding an object, or a string encoding
\* a JSON value that is not an object.
CMissing == [tag |-> "missing", obj |-> EmptyContent]
CNotStr == [tag |-> "notstr", obj |-> EmptyContent]
CBadJson == [tag |-> "badjson", obj |-> EmptyContent]
CEmpty == [tag |-> "empty", obj |-> EmptyContent]
CNonObj == [tag |-> "nonobj", obj |-> EmptyContent]
CObj(o) == [tag |-> "obj", obj |-> o]

RawFrame(json, id, requestId, type, content) ==
    [json |-> json, id |-> id, requestId |-> requestId, type |-> type,
     content |-> content]
NotJson == RawFrame(FALSE, JMissing, JMissing, JMissing, CMissing)

\* int(decoded[key]): KeyError, TypeError and ValueError become a failure.
IntOf(x) ==
    CASE x.tag = "int" -> [ok |-> TRUE, v |-> x.v]
      [] x.tag = "numstr" -> [ok |-> TRUE, v |-> x.v]
      [] OTHER -> [ok |-> FALSE, v |-> 0]

\* The exception int(decoded[key]) raises for a header field: KeyError,
\* TypeError and ValueError are turned into ProtocolError by parse, the
\* OverflowError of int(inf) is not among them.
FieldError(x) ==
    CASE x.tag \in {"int", "numstr"} -> "none"
      [] x.tag = "inf" -> "OverflowError"
      [] OTHER -> "ProtocolError"

\* The fields are read in the order id, requestId, type, content.
HeaderError(raw) ==
    IF FieldError(raw.id) # "none" THEN FieldError(raw.id)
    ELSE IF FieldError(raw.requestId) # "none" THEN FieldError(raw.requestId)
    ELSE IF FieldError(raw.type) # "none" THEN FieldError(raw.type)
    ELSE IF raw.content.tag = "missing" THEN "ProtocolError"
    ELSE "none"

ParseFailure(raises, error_code) ==
    [ok |-> FALSE, raises |-> raises, error_code |-> error_code]

\* AlgerMessage.parse: a message, or a ProtocolError with the default code,
\* or the exception parse does not catch.
parse(raw) ==
    IF ~raw.json THEN ParseFailure("ProtocolError", CODE_UNKNOWN_TYPE)
    ELSE IF HeaderError(raw) = "OverflowError"
         THEN ParseFailure("OverflowError", 0)
    ELSE IF HeaderError(raw) = "ProtocolError"
         THEN ParseFailure("ProtocolError", CODE_UNKNOWN_TYPE)
    ELSE IF raw.content.tag = "notstr"
         THEN ParseFailure("ProtocolError", CODE_UNKNOWN_TYPE)
    ELSE IF raw.content.tag = "badjson"
         THEN ParseFailure("ProtocolError", CODE_UNKNOWN_TYPE)
    ELSE [ok |-> TRUE,
          message_id |-> IntOf(raw.id).v,
          request_id |-> IntOf(raw.requestId).v,
          type_code |-> IntOf(raw.type).v,
          isobj |-> raw.content.tag # "nonobj",
          content |-> raw.content.obj]

\* ------------------------------------------------------- outbound frames
Frame(id, requestId, type, executionId, expectedId, receivedId, active, info) ==
    [id |-> id, requestId |-> requestId, type |-> type,
     executionId |-> executionId, expectedId |-> expectedId,
     receivedId |-> receivedId, activeExecutions |-> active, info |-> info]
NoFrame == Frame(0, 0, 0, 0, 0, 0, 0, "none")

\* build_status_response applied to a handler result r = [type, executionId,
\* active, info].
build_status_response(message_id, request_id, r) ==
    Frame(message_id, request_id, r.type, r.executionId, 0, 0, r.active, r.info)

Result(type, executionId, active, info) ==
    [type |-> type, executionId |-> executionId, active |-> active, info |-> info]

VARIABLES
    pc,                \* position of each connection's coroutine
    closeCode,         \* close code of a rejected handshake, 0 otherwise
    hello,             \* the opening request: query credentials, sub-protocol
    last_message_id,   \* alger_handler's local counter
    nrecv,             \* inbound frames read so far, over all connections
    lastIn,            \* the inbound frame being handled / last handled
    pending,           \* the frame built and about to be sent
    pendingKind,       \* which branch of the loop built it
    emitted,           \* frames sent since the last inbound frame was read
    wire,              \* ids consumed: accepted inbound ("in") and sent ("out")
    SERVER_STATE,      \* server.py's module-level state
    APP_STATE,         \* app/services.py's SERVER_STATE
    db,                \* the executions table of the SQLite gateway
    error_logs,        \* execution ids the rows of the error_logs table name
    task,              \* the background coroutine of each execution
    post,              \* the coroutine a handler returned, not yet scheduled
    lock,              \* holder of each connection's dispatcher lock
    outq,              \* status frames posted by status_callback, unsent
    statusSending,     \* the status frame being sent under the lock
    execFrames,        \* per execution, the frames sent about it, in wire order
    dag,               \* one call of the DAG engine: its graph and its runs
    codec,             \* one frame through AlgerMessage.to_json and parse
    users              \* the users table and the threads inside ensure_user

loopvars == <<pc, closeCode, hello, last_message_id, nrecv, lastIn, pending,
              pendingKind, emitted, wire>>
appvars == <<APP_STATE, db, error_logs, task, post, lock, outq, statusSending, execFrames>>
vars == <<pc, closeCode, hello, last_message_id, nrecv, lastIn, pending, pendingKind,
          emitted, wire, SERVER_STATE, APP_STATE, db, error_logs, task, post,
          lock, outq, statusSending, execFrames, dag, codec, users>>

\* executionId is the one an accepted frame's content names (0 for none).
\* No frame in the codec.
NoCodec == [pc |-> "none"]

\* No engine call under way.
NoDag == [pc |-> "none"]

\* No thread in the gateway.
NoUsers == [pc |-> "none"]

SUBPROTOCOL == "alger"
USERNAME == "admin"
PASSWORD == "admin"
NoHello == [username |-> "none", password |-> "none", subprotocol |-> "none"]

NoIn == [id |-> 0, type |-> 0, parsed |-> FALSE, accepted |-> FALSE,
         executionId |-> 0]

\* _default_server_state
default_server_state_standalone ==
    [active_executions |-> 0,
     max_concurrent_executions |-> 3,
     executions |-> [e \in ExecIds |-> "none"],
     executions_halted |-> FALSE,
     maintenance_mode |-> FALSE]

\* app/config.py default_server_state
default_server_state ==
    [max_concurrent_executions |-> 1,
     executions_halted |-> FALSE,
     maintenance_mode |-> FALSE]

\* A row of the executions table; status "none" stands for no row.
Row(status, output_file, output_content, completed_at, source) ==
    [status |-> status, output_file |-> output_file,
     output_content |-> output_content, completed_at |-> completed_at,
     source |-> source]
NoRow == Row("none", "none", "none", FALSE, "none")

Task(p, conn, request_id, type_code) ==
    [pc |-> p, conn |-> conn, request_id |-> request_id, type_code |-> type_code]
NoTask == Task("none", 0, 0, 0)

Init ==
    /\ APP_STATE = default_server_state
    /\ db = [e \in ExecIds |-> NoRow]
    /\ error_logs = {}
    /\ task = [e \in ExecIds |-> NoTask]
    /\ post = [c \in Conns |-> 0]
    /\ lock = [c \in Conns |-> "free"]
    /\ outq = [c \in Conns |-> <<>>]
    /\ statusSending = [c \in Conns |-> NoFrame]
    /\ execFrames = [e \in ExecIds |-> <<>>]
    /\ pc = [c \in Conns |-> "handshake"]
    /\ closeCode = [c \in Conns |-> 0]
    /\ hello = [c \in Conns |-> NoHello]
    /\ last_message_id = [c \in Conns |-> 0]
    /\ nrecv = 0
    /\ lastIn = [c \in Conns |-> NoIn]
    /\ pending = [c \in Conns |-> NoFrame]
    /\ pendingKind = [c \in Conns |-> "none"]
    /\ emitted = [c \in Conns |-> <<>>]
    /\ wire = [c \in Conns |-> <<>>]
    /\ SERVER_STATE = default_server_state_standalone
    /\ dag = NoDag
    /\ codec = NoCodec
    /\ users = NoUsers


\* ------------------------------------------- server.py: in-memory handlers
\* uuid4(): an id no execution holds yet (0 once the model's ids are used up;
\* a request that would then create an execution is not considered).
HasFreshId(execs) == \E e \in ExecIds : execs[e] = "none"
FreshId(execs) ==
    IF HasFreshId(execs)
    THEN CHOOSE e \in ExecIds :
            /\ execs[e] = "none"
            /\ \A f \in ExecIds : execs[f] = "none" => e <= f
    ELSE 0

Max(a, b) == IF a >= b THEN a ELSE b

\* A handler's outcome: the result it returns and the state it leaves.
Outcome(r, S) == [raises |-> "none", result |-> r, state |-> S]
NoResult == Result(0, 0, 0, "none")

_execution_blocker_standalone(S) ==
    IF S.maintenance_mode THEN Result(CODE_MAINTENANCE_MODE, 0, 0, "maintenance")
    ELSE IF S.executions_halted THEN Result(CODE_EXECUTIONS_HALTED, 0, 0, "halted")
    ELSE IF S.active_executions >= S.max_concurrent_executions
         THEN Result(CODE_TOO_MANY_EXECUTIONS, 0, 0, "too many")
    ELSE NoResult

handle_login_standalone_FailureLocksOut(m, S) ==
    IF m.content.login = "good"
    THEN Outcome(Result(CODE_LOGIN_OK, 0, 0, "login-ok"), S)
    ELSE Outcome(Result(CODE_LOGIN_UNKNOWN, 0, 0, "unknown credentials"),
                 [S EXCEPT !.executions_halted = TRUE])

handle_login_standalone(m, S) ==
    IF m.content.login = "good"
    THEN Outcome(Result(CODE_LOGIN_OK, 0, 0, "login-ok"), S)
    ELSE Outcome(Result(CODE_LOGIN_UNKNOWN, 0, 0, "unknown credentials"), S)

handle_get_user_data_standalone(m, S) ==
    IF m.content.userId = "none"
    THEN Outcome(Result(CODE_USER_DATA_ERROR, 0, 0, "userId is required"), S)
    ELSE IF m.content.userId # "admin"
         THEN Outcome(Result(CODE_USER_DATA_ERROR, 0, 0, "user not found"), S)
    ELSE Outcome(Result(CODE_USER_DATA, 0, 0, "user"), S)

handle_full_pipeline_standalone(m, S) ==
    Outcome(Result(CODE_PIPELINE_FULL, 0, 0, "pipelines"), S)

\* The creation shared by the two execute handlers: a running execution and
\* one more active slot.
StartExecutionStandalone(S, okCode, info) ==
    LET e == FreshId(S.executions) IN
    IF e = 0 THEN Outcome(NoResult, S) ELSE
    Outcome(Result(okCode, e, 0, info),
            [S EXCEPT !.executions[e] = "running",
                      !.active_executions = @ + 1])

handle_execute_from_db_standalone(m, S) ==
    IF m.content.pipelineId = "none"
    THEN Outcome(Result(CODE_EXECUTION_FROM_DB_ERROR, 0, 0, "pipelineId is required"), S)
    ELSE IF m.content.pipelineId # "demo"
         THEN Outcome(Result(CODE_EXECUTION_FROM_DB_ERROR, 0, 0, "pipeline not found"), S)
    ELSE IF _execution_blocker_standalone(S) # NoResult
         THEN Outcome(_execution_blocker_standalone(S), S)
    ELSE StartExecutionStandalone(S, CODE_EXECUTION_FROM_DB_OK, "pipeline-execution-started")

handle_execute_from_payload_standalone(m, S) ==
    IF m.content.graph = "none"
    THEN Outcome(Result(CODE_EXECUTION_FROM_PAYLOAD_ERROR, 0, 0, "graph definition missing"), S)
    ELSE IF _execution_blocker_standalone(S) # NoResult
         THEN Outcome(_execution_blocker_standalone(S), S)
    ELSE StartExecutionStandalone(S, CODE_EXECUTION_FROM_PAYLOAD_OK, "ad-hoc-execution-started")

handle_stop_execution_standalone(m, S) ==
    LET e == m.content.executionId IN
    IF e = 0
    THEN Outcome(Result(CODE_STOP_EXECUTION_ERROR, 0, 0, "executionId is required"), S)
    ELSE IF e \notin ExecIds \/ S.executions[e] = "none"
         THEN Outcome(Result(CODE_STOP_EXECUTION_ERROR, 0, 0, "execution not found"), S)
    ELSE Outcome(Result(CODE_STOP_EXECUTION_OK, e, 0, "stopped"),
                 [S EXCEPT !.executions[e] = "stopped",
                           !.active_executions = Max(0, @ - 1)])

handle_request_output_standalone(m, S) ==
    LET e == m.content.executionId IN
    IF e = 0
    THEN Outcome(Result(CODE_PIPELINE_FINISHED_ERROR, 0, 0, "executionId is required"), S)
    ELSE IF e \notin ExecIds \/ S.executions[e] = "none"
         THEN Outcome(Result(CODE_PIPELINE_FINISHED_ERROR, 0, 0, "execution not found"), S)
    ELSE Outcome(Result(CODE_PIPELINE_FINISHED_OK, e, 0, "output"), S)

\* route_message: ProtocolError for a type outside REQUEST_TYPES, otherwise
\* the handler; a handler reading message.content.get on a payload that is
\* not an object raises AttributeError (handle_full_pipeline reads nothing).
route_message_standalone(m, S) ==
    IF m.type_code \notin REQUEST_TYPES
    THEN [raises |-> "ProtocolError", result |-> NoResult, state |-> S]
    ELSE IF ~m.isobj /\ m.type_code # 102
         THEN [raises |-> "AttributeError", result |-> NoResult, state |-> S]
    ELSE CASE m.type_code = 100 -> handle_login_standalone(m, S)
           [] m.type_code = 101 -> handle_get_user_data_standalone(m, S)
           [] m.type_code = 102 -> handle_full_pipeline_standalone(m, S)
           [] m.type_code = 103 -> handle_execute_from_db_standalone(m, S)
           [] m.type_code = 104 -> handle_execute_from_payload_standalone(m, S)
           [] m.type_code = 106 -> handle_stop_execution_standalone(m, S)
           [] OTHER -> handle_request_output_standalone(m, S)

\* ---------------------------------------------- inbound frames considered
RequestContents ==
    {Content("good", "none", "none", "none", 0),
     Content("bad", "none", "none", "none", 0),
     Content("none", "admin", "none", "none", 0),
     Content("none", "none", "demo", "none", 0),
     Content("none", "none", "nope", "none", 0),
     Content("none", "none", "none", "some", 0),
     EmptyContent}
    \cup {Content("none", "none", "none", "none", e) : e \in ExecIds}

\* Frames that parse: every request type and two unknown ones, with a fitting
\* or an empty payload, the id given as a number or as a string of digits.
Requests(id) ==
    {RawFrame(TRUE, JInt(id), JInt(0), JInt(100), CObj(o)) :
        o \in {Content("good", "none", "none", "none", 0),
               Content("bad", "none", "none", "none", 0)}}
    \cup {RawFrame(TRUE, JInt(id), JInt(0), JInt(101), CObj(Content("none", "admin", "none", "none", 0))),
          RawFrame(TRUE, JInt(id), JInt(0), JInt(102), CEmpty),
          RawFrame(TRUE, JInt(id), JInt(0), JInt(102), CNonObj),
          RawFrame(TRUE, JInt(id), JInt(0), JInt(100), CNonObj),
          RawFrame(TRUE, JNumStr(id), JInt(0), JInt(103), CObj(Content("none", "none", "demo", "none", 0))),
          RawFrame(TRUE, JInt(id), JInt(0), JInt(103), CObj(Content("none", "none", "demo", "none", 0))),
          RawFrame(TRUE, JInt(id), JInt(0), JInt(103), CObj(Content("none", "none", "nope", "none", 0))),
          RawFrame(TRUE, JInt(id), JInt(0), JInt(104), CObj(Content("none", "none", "none", "some", 0))),
          RawFrame(TRUE, JInt(id), JInt(0), JInt(104), CEmpty),
          RawFrame(TRUE, JInt(id), JInt(0), JInt(105), CEmpty),
          RawFrame(TRUE, JInt(id), JInt(0), JInt(150), CEmpty),
          RawFrame(TRUE, JInt(id), JInt(0), JInt(150), CNonObj)}
    \cup {RawFrame(TRUE, JInt(id), JInt(0), JInt(t), CObj(Content("none", "none", "none", "none", e))) :
            t \in {106, 107}, e \in 0..MaxExec}

\* Frames that do not parse.
Unparsable(id) ==
    {NotJson,
     RawFrame(TRUE, JMissing, JInt(0), JInt(100), CEmpty),
     RawFrame(TRUE, JStr, JInt(0), JInt(100), CEmpty),
     RawFrame(TRUE, JInf, JInt(0), JInt(100), CEmpty),
     RawFrame(TRUE, JInt(id), JNull, JInt(100), CEmpty),
     RawFrame(TRUE, JInt(id), JInt(0), JInt(103), CNotStr),
     RawFrame(TRUE, JInt(id), JInt(0), JInt(103), CBadJson),
     RawFrame(TRUE, JInt(id), JInt(0), JInt(103), CMissing)}

\* What a client may send when the server expects id: well-numbered frames,
\* frames numbered too high or too low, and frames that do not parse.
MisNumbered(id) ==
    {RawFrame(TRUE, JInt(id + 1), JInt(0), JInt(100), CObj(Content("good", "none", "none", "none", 0))),
     RawFrame(TRUE, JInt(id - 1), JInt(0), JInt(100), CObj(Content("good", "none", "none", "none", 0))),
     RawFrame(TRUE, JNumStr(id + 1), JInt(0), JInt(103), CObj(Content("none", "none", "demo", "none", 0))),
     RawFrame(TRUE, JInt(id + 1), JInt(0), JInt(106), CObj(Content("none", "none", "none", "none", 1))),
     RawFrame(TRUE, JInt(id + 1), JInt(0), JInt(150), CNonObj)}

InboundFrames(id) ==
    Requests(id) \cup MisNumbered(id) \cup Unparsable(id)

\* ----------------------------------------- server.py: the connection loop
\* ensure_credentials: parse_qs of the path's query, None for an absent
\* parameter, and both values compared with the configured pair.
ensure_credentials_EitherMatches(h) ==
    h.username = USERNAME \/ h.password = PASSWORD

ensure_credentials(h) ==
    ~(h.username # USERNAME \/ h.password # PASSWORD)

\* What a client may open a connection with.
Hellos ==
    [username : {"admin", "guest"}, password : {"admin", "none"},
     subprotocol : {"alger", "none"}]

\* The head of alger_handler: ensure_credentials, close 4401 on
\* PermissionError; then the sub-protocol check, close 4406.
Handshake(c) ==
    /\ pc[c] = "handshake"
    /\ \E h \in Hellos :
        /\ hello' = [hello EXCEPT ![c] = h]
        /\ IF ~ensure_credentials(h)
           THEN /\ pc' = [pc EXCEPT ![c] = "closed"]
                /\ closeCode' = [closeCode EXCEPT ![c] = CLOSE_AUTH]
           ELSE IF h.subprotocol # SUBPROTOCOL
           THEN /\ pc' = [pc EXCEPT ![c] = "closed"]
                /\ closeCode' = [closeCode EXCEPT ![c] = CLOSE_SUBPROTOCOL]
           ELSE /\ pc' = [pc EXCEPT ![c] = "recv"]
                /\ UNCHANGED closeCode
    /\ UNCHANGED <<last_message_id, nrecv, lastIn, pending, pendingKind,
                   emitted, wire, SERVER_STATE, dag, codec, users, appvars>>

\* websocket.recv() raised ConnectionClosed: the loop breaks.
Disconnect(c) ==
    /\ pc[c] = "recv"
    /\ pc' = [pc EXCEPT ![c] = "closed"]
    /\ UNCHANGED <<closeCode, hello, last_message_id, nrecv, lastIn, pending,
                   pendingKind, emitted, wire, SERVER_STATE, dag, codec, users, appvars>>

\* recv, then parse fails: on a ProtocolError the error frame is built with
\* last_message_id + 1; any other exception leaves alger_handler.
RecvParseError(c) ==
    /\ pc[c] = "recv"
    /\ nrecv < MaxFrames
    /\ \E raw \in InboundFrames(last_message_id[c] + 1) :
        /\ ~parse(raw).ok
        /\ lastIn' = [lastIn EXCEPT ![c] = NoIn]
        /\ IF parse(raw).raises = "ProtocolError"
           THEN /\ pending' = [pending EXCEPT ![c] =
                      Frame(last_message_id[c] + 1, 0, parse(raw).error_code,
                            0, 0, 0, 0, "protocol error")]
                /\ pendingKind' = [pendingKind EXCEPT ![c] = "parse"]
                /\ pc' = [pc EXCEPT ![c] = "send"]
           ELSE /\ pc' = [pc EXCEPT ![c] = "crashed"]
                /\ UNCHANGED <<pending, pendingKind>>
    /\ nrecv' = nrecv + 1
    /\ emitted' = [emitted EXCEPT ![c] = <<>>]
    /\ UNCHANGED <<closeCode, hello, last_message_id, wire, SERVER_STATE, dag, codec, users, appvars>>

RecvBadId_RoutesAnyway(c) ==
    /\ pc[c] = "recv"
    /\ nrecv < MaxFrames
    /\ \E raw \in InboundFrames(last_message_id[c] + 1) :
        LET m == parse(raw)
            expected_id == last_message_id[c] + 1
        IN  /\ m.ok
            /\ m.message_id # expected_id
            /\ lastIn' = [lastIn EXCEPT ![c] =
                  [id |-> m.message_id, type |-> m.type_code,
                   parsed |-> TRUE, accepted |-> FALSE, executionId |-> 0]]
            /\ pending' = [pending EXCEPT ![c] =
                  Frame(expected_id, m.message_id, CODE_MESSAGE_ID_ERROR,
                        0, expected_id, m.message_id, 0, "incorrect message id")]
            /\ SERVER_STATE' = route_message_standalone(m, SERVER_STATE).state
    /\ pendingKind' = [pendingKind EXCEPT ![c] = "badid"]
    /\ nrecv' = nrecv + 1
    /\ emitted' = [emitted EXCEPT ![c] = <<>>]
    /\ pc' = [pc EXCEPT ![c] = "send"]
    /\ UNCHANGED <<closeCode, hello, last_message_id, wire, dag, codec, users, appvars>>

\* recv, parse succeeds, the id is not the expected one: the 395 frame.
RecvBadId(c) ==
    /\ pc[c] = "recv"
    /\ nrecv < MaxFrames
    /\ \E raw \in InboundFrames(last_message_id[c] + 1) :
        LET m == parse(raw)
            expected_id == last_message_id[c] + 1
        IN  /\ m.ok
            /\ m.message_id # expected_id
            /\ lastIn' = [lastIn EXCEPT ![c] =
                  [id |-> m.message_id, type |-> m.type_code,
                   parsed |-> TRUE, accepted |-> FALSE, executionId |-> 0]]
            /\ pending' = [pending EXCEPT ![c] =
                  Frame(expected_id, m.message_id, CODE_MESSAGE_ID_ERROR,
                        0, expected_id, m.message_id, 0, "incorrect message id")]
    /\ pendingKind' = [pendingKind EXCEPT ![c] = "badid"]
    /\ nrecv' = nrecv + 1
    /\ emitted' = [emitted EXCEPT ![c] = <<>>]
    /\ pc' = [pc EXCEPT ![c] = "send"]
    /\ UNCHANGED <<closeCode, hello, last_message_id, wire, SERVER_STATE, dag, codec, users, appvars>>

\* recv, parse succeeds, the id matches: last_message_id takes the id, the
\* message is routed, and the response is built with last_message_id + 1.
\* A ProtocolError of route_message becomes a response with its error code;
\* any other exception leaves alger_handler.
RecvRoute(c) ==
    /\ pc[c] = "recv"
    /\ nrecv < MaxFrames
    /\ \E raw \in InboundFrames(last_message_id[c] + 1) :
        LET m == parse(raw)
            out == route_message_standalone(m, SERVER_STATE)
        IN  /\ m.ok
            /\ m.message_id = last_message_id[c] + 1
            /\ (out.raises = "none" => out.result # NoResult)
            /\ lastIn' = [lastIn EXCEPT ![c] =
                  [id |-> m.message_id, type |-> m.type_code,
                   parsed |-> TRUE, accepted |-> TRUE,
                   executionId |-> IF m.isobj THEN m.content.executionId ELSE 0]]
            /\ last_message_id' = [last_message_id EXCEPT ![c] = m.message_id]
            /\ wire' = [wire EXCEPT ![c] = Append(@, <<"in", m.message_id>>)]
            /\ SERVER_STATE' = out.state
            /\ IF out.raises = "AttributeError"
               THEN /\ pc' = [pc EXCEPT ![c] = "crashed"]
                    /\ UNCHANGED <<pending, pendingKind>>
               ELSE /\ pc' = [pc EXCEPT ![c] = "send"]
                    /\ pendingKind' = [pendingKind EXCEPT ![c] = "response"]
                    /\ pending' = [pending EXCEPT ![c] =
                          IF out.raises = "ProtocolError"
                          THEN Frame(m.message_id + 1, m.message_id,
                                     CODE_UNKNOWN_TYPE, 0, 0, 0, 0, "unsupported type")
                          ELSE build_status_response(m.message_id + 1,
                                                     m.message_id, out.result)]
    /\ nrecv' = nrecv + 1
    /\ emitted' = [emitted EXCEPT ![c] = <<>>]
    /\ UNCHANGED <<closeCode, hello, appvars, dag, codec, users>>

AfterSend_ParseKeepsId(kind, last, frame) ==
    CASE kind = "parse" -> last
      [] kind = "badid" -> frame.expectedId
      [] OTHER -> frame.id

AfterSend_TakesReceivedId(kind, last, frame) ==
    CASE kind = "parse" -> last + 1
      [] kind = "badid" -> frame.receivedId
      [] OTHER -> frame.id

\* The value last_message_id takes once the pending frame is sent:
\* += 1 after a parse error, expected_id after a 395, response.message_id
\* after a response.
AfterSend(kind, last, frame) ==
    CASE kind = "parse" -> last + 1
      [] kind = "badid" -> frame.expectedId
      [] OTHER -> frame.id

\* await websocket.send(...), then the assignment to last_message_id.
Send(c) ==
    /\ pc[c] = "send"
    /\ emitted' = [emitted EXCEPT ![c] = Append(@, pending[c])]
    /\ wire' = [wire EXCEPT ![c] = Append(@, <<"out", pending[c].id>>)]
    /\ last_message_id' = [last_message_id EXCEPT ![c] =
          AfterSend(pendingKind[c], @, pending[c])]
    /\ pending' = [pending EXCEPT ![c] = NoFrame]
    /\ pendingKind' = [pendingKind EXCEPT ![c] = "none"]
    /\ pc' = [pc EXCEPT ![c] = "recv"]
    /\ UNCHANGED <<closeCode, hello, nrecv, lastIn, SERVER_STATE, dag, codec, users, appvars>>

Next ==
    \E c \in Conns :
        \/ Handshake(c)
        \/ Disconnect(c)
        \/ RecvParseError(c)
        \/ RecvBadId(c)
        \/ RecvRoute(c)
        \/ Send(c)

Spec == Init /\ [][Next]_vars

TypeOK ==
    /\ \A c \in Conns : pc[c] \in {"handshake", "closed", "recv", "send", "sending", "crashed"}
    /\ \A c \in Conns : last_message_id[c] \in Nat


\* =========================================================== the app package
\* ------------------------------------ app/persistence/database.py: executions
TerminalStatuses == {"finished", "failed", "stopped"}
ActiveStatuses == {"running", "queued"}

StatusOf(D) == [e \in ExecIds |-> D[e].status]

\* create_execution: INSERT with the given status; output_file and
\* output_content from the output given; completed_at is left NULL.
create_execution(D, e, source, status) ==
    [D EXCEPT ![e] = Row(status, "none", "none", FALSE, source)]

\* get_execution: the row, or None.
get_execution(D, e) ==
    IF e \in ExecIds /\ D[e].status # "none" THEN D[e] ELSE NoRow

update_execution_status_StopNotStamped(D, e, status, output_file, output_content) ==
    [D EXCEPT ![e] =
        Row(status,
            IF output_file # "none" THEN output_file ELSE @.output_file,
            IF output_content # "none" THEN output_content ELSE @.output_content,
            IF status \in {"finished", "failed"} THEN TRUE ELSE @.completed_at,
            @.source)]

\* update_execution_status: SET status; COALESCE keeps the old output where
\* none is given; completed_at is stamped for finished, failed and stopped.
update_execution_status(D, e, status, output_file, output_content) ==
    [D EXCEPT ![e] =
        Row(status,
            IF output_file # "none" THEN output_file ELSE @.output_file,
            IF output_content # "none" THEN output_content ELSE @.output_content,
            IF status \in {"finished", "failed", "stopped"} THEN TRUE ELSE @.completed_at,
            @.source)]

\* count_active_executions: COUNT(*) WHERE status IN ('running', 'queued').
count_active_executions(D) ==
    Cardinality({e \in ExecIds : D[e].status \in {"running", "queued"}})

\* encode_summary is json.dumps of the summary; decode_summary gives {} for
\* no payload, the parsed document for JSON, and {"raw": payload} otherwise.
encode_summary(summary) ==
    CASE summary = "error" -> "json(error)"
      [] summary = "summary" -> "json(summary)"
      [] OTHER -> "json(other)"

decode_summary(payload) ==
    CASE payload = "none" -> "{}"
      [] payload = "json(error)" -> "error"
      [] payload = "json(summary)" -> "summary"
      [] payload = "json(other)" -> "other"
      [] OTHER -> "raw"

\* ------------------------------------------------ app/services.py: handlers
\* A handler's outcome: the (code, content) it returns, the table it leaves,
\* and the execution whose coroutine it returns (0 for none).
AppOutcome(r, D, T, e) == [result |-> r, db |-> D, task |-> T, post |-> e]

_execution_blocker_OffByOne(A, D) ==
    IF A.maintenance_mode THEN Result(CODE_MAINTENANCE_MODE, 0, 0, "maintenance")
    ELSE IF A.executions_halted THEN Result(CODE_EXECUTIONS_HALTED, 0, 0, "halted")
    ELSE IF count_active_executions(D) > A.max_concurrent_executions
         THEN Result(CODE_TOO_MANY_EXECUTIONS, 0, count_active_executions(D), "too many")
    ELSE NoResult

_execution_blocker_HaltedFirst(A, D) ==
    IF A.executions_halted THEN Result(CODE_EXECUTIONS_HALTED, 0, 0, "halted")
    ELSE IF A.maintenance_mode THEN Result(CODE_MAINTENANCE_MODE, 0, 0, "maintenance")
    ELSE IF count_active_executions(D) >= A.max_concurrent_executions
         THEN Result(CODE_TOO_MANY_EXECUTIONS, 0, count_active_executions(D), "too many")
    ELSE NoResult

_execution_blocker(A, D) ==
    IF A.maintenance_mode THEN Result(CODE_MAINTENANCE_MODE, 0, 0, "maintenance")
    ELSE IF A.executions_halted THEN Result(CODE_EXECUTIONS_HALTED, 0, 0, "halted")
    ELSE IF count_active_executions(D) >= A.max_concurrent_executions
         THEN Result(CODE_TOO_MANY_EXECUTIONS, 0, count_active_executions(D), "too many")
    ELSE NoResult

handle_login(m, D, T) ==
    IF m.content.login = "good"
    THEN AppOutcome(Result(CODE_LOGIN_OK, 0, 0, "login-ok"), D, T, 0)
    ELSE AppOutcome(Result(CODE_LOGIN_UNKNOWN, 0, 0, "unknown credentials"), D, T, 0)

\* context.username is the handshake's username, "admin".
handle_get_user_data(m, D, T) ==
    IF m.content.userId = "none"
    THEN AppOutcome(Result(CODE_USER_DATA_ERROR, 0, 0, "userId is required"), D, T, 0)
    ELSE IF m.content.userId # "admin"
         THEN AppOutcome(Result(CODE_USER_DATA_ERROR, 0, 0, "user not found"), D, T, 0)
    ELSE AppOutcome(Result(CODE_USER_DATA, 0, 0, "user"), D, T, 0)

\* list_pipelines() holds the seeded pipeline "demo".
handle_full_pipeline(m, D, T) ==
    AppOutcome(Result(CODE_PIPELINE_FULL, 0, 0, "pipelines"), D, T, 0)

\* The tail shared by the two execute handlers: create_execution with status
\* running, build the coroutine _run_and_finalize_execution, acknowledge.
StartExecution(m, c, D, T, source, okCode) ==
    LET e == FreshId(StatusOf(D)) IN
    IF e = 0 THEN AppOutcome(NoResult, D, T, 0) ELSE
    AppOutcome(Result(okCode, e, 0, "pipeline-execution-started"),
               create_execution(D, e, source, "running"),
               [T EXCEPT ![e] = Task("created", c, m.message_id, m.type_code)],
               e)

handle_execute_from_db(m, c, A, D, T) ==
    IF m.content.pipelineId = "none"
    THEN AppOutcome(Result(CODE_EXECUTION_FROM_DB_ERROR, 0, 0, "pipelineId is required"), D, T, 0)
    ELSE IF m.content.pipelineId # "demo"
         THEN AppOutcome(Result(CODE_EXECUTION_FROM_DB_ERROR, 0, 0, "pipeline not found"), D, T, 0)
    ELSE IF _execution_blocker(A, D) # NoResult
         THEN AppOutcome(_execution_blocker(A, D), D, T, 0)
    ELSE StartExecution(m, c, D, T, "db", CODE_EXECUTION_FROM_DB_OK)

handle_execute_from_payload(m, c, A, D, T) ==
    IF m.content.graph = "none"
    THEN AppOutcome(Result(CODE_EXECUTION_FROM_PAYLOAD_ERROR, 0, 0, "graph definition missing"), D, T, 0)
    ELSE IF _execution_blocker(A, D) # NoResult
         THEN AppOutcome(_execution_blocker(A, D), D, T, 0)
    ELSE StartExecution(m, c, D, T, "payload", CODE_EXECUTION_FROM_PAYLOAD_OK)

handle_stop_execution(m, D, T) ==
    LET e == m.content.executionId IN
    IF e = 0
    THEN AppOutcome(Result(CODE_STOP_EXECUTION_ERROR, 0, 0, "executionId is required"), D, T, 0)
    ELSE IF get_execution(D, e) = NoRow
         THEN AppOutcome(Result(CODE_STOP_EXECUTION_ERROR, 0, 0, "execution not found"), D, T, 0)
    ELSE AppOutcome(Result(CODE_STOP_EXECUTION_OK, e, 0, "stopped"),
                    update_execution_status(D, e, "stopped", "none", "none"), T, 0)

handle_request_output_AutoFinishes(m, D, T) ==
    LET e == m.content.executionId
        execution == get_execution(D, e)
    IN
    IF e = 0
    THEN AppOutcome(Result(CODE_PIPELINE_FINISHED_ERROR, 0, 0, "executionId is required"), D, T, 0)
    ELSE IF execution = NoRow
         THEN AppOutcome(Result(CODE_PIPELINE_FINISHED_ERROR, 0, 0, "execution not found"), D, T, 0)
    ELSE IF execution.status = "running"
         THEN AppOutcome(Result(CODE_PIPELINE_FINISHED_OK, e, 0, "summary"),
                         update_execution_status(D, e, "finished", "summary",
                                                 encode_summary("summary")), T, 0)
    ELSE IF execution.status = "failed"
         THEN AppOutcome(Result(CODE_PIPELINE_FINISHED_ERROR, e, 0,
                                decode_summary(execution.output_content)), D, T, 0)
    ELSE IF execution.status # "finished"
         THEN AppOutcome(Result(CODE_PIPELINE_FINISHED_ERROR, 0, 0, "not available"), D, T, 0)
    ELSE AppOutcome(Result(CODE_PIPELINE_FINISHED_OK, e, 0,
                           decode_summary(execution.output_content)), D, T, 0)

handle_request_output_AnyTerminal(m, D, T) ==
    LET e == m.content.executionId
        execution == get_execution(D, e)
    IN
    IF e = 0
    THEN AppOutcome(Result(CODE_PIPELINE_FINISHED_ERROR, 0, 0, "executionId is required"), D, T, 0)
    ELSE IF execution = NoRow
         THEN AppOutcome(Result(CODE_PIPELINE_FINISHED_ERROR, 0, 0, "execution not found"), D, T, 0)
    ELSE IF execution.status = "running"
         THEN AppOutcome(Result(CODE_PIPELINE_FINISHED_ERROR, 0, 0, "still running"), D, T, 0)
    ELSE IF execution.status = "failed"
         THEN AppOutcome(Result(CODE_PIPELINE_FINISHED_ERROR, e, 0,
                                decode_summary(execution.output_content)), D, T, 0)
    ELSE AppOutcome(Result(CODE_PIPELINE_FINISHED_OK, e, 0,
                           decode_summary(execution.output_content)), D, T, 0)

handle_request_output(m, D, T) ==
    LET e == m.content.executionId
        execution == get_execution(D, e)
    IN
    IF e = 0
    THEN AppOutcome(Result(CODE_PIPELINE_FINISHED_ERROR, 0, 0, "executionId is required"), D, T, 0)
    ELSE IF execution = NoRow
         THEN AppOutcome(Result(CODE_PIPELINE_FINISHED_ERROR, 0, 0, "execution not found"), D, T, 0)
    ELSE IF execution.status = "running"
         THEN AppOutcome(Result(CODE_PIPELINE_FINISHED_ERROR, 0, 0, "still running"), D, T, 0)
    ELSE IF execution.status = "failed"
         THEN AppOutcome(Result(CODE_PIPELINE_FINISHED_ERROR, e, 0,
                                decode_summary(execution.output_content)), D, T, 0)
    ELSE IF execution.status # "finished"
         THEN AppOutcome(Result(CODE_PIPELINE_FINISHED_ERROR, 0, 0, "not available"), D, T, 0)
    ELSE AppOutcome(Result(CODE_PIPELINE_FINISHED_OK, e, 0,
                           decode_summary(execution.output_content)), D, T, 0)

\* route_message of app/services.py, for a type in REQUEST_TYPES.
route_message(m, c, A, D, T) ==
    CASE m.type_code = 100 -> handle_login(m, D, T)
      [] m.type_code = 101 -> handle_get_user_data(m, D, T)
      [] m.type_code = 102 -> handle_full_pipeline(m, D, T)
      [] m.type_code = 103 -> handle_execute_from_db(m, c, A, D, T)
      [] m.type_code = 104 -> handle_execute_from_payload(m, c, A, D, T)
      [] m.type_code = 106 -> handle_stop_execution(m, D, T)
      [] OTHER -> handle_request_output(m, D, T)

\* ------------------------------- app/services.py: the background coroutine
\* The parameters run_graph declares, and the keywords the coroutine passes
\* besides the positional graph_payload.
run_graph_parameters == {"graph_payload", "strategy"}
run_graph_call_keywords == {"strategy", "observer", "simulate_delay_range"}

\* What awaiting asyncio.to_thread(run_graph, ...) yields: a call with a
\* keyword the function does not declare raises TypeError before its body.
run_graph_outcome ==
    IF run_graph_call_keywords \subseteq run_graph_parameters
    THEN "returns"
    ELSE "TypeError"

\* str(exc) of what the await raises: the TypeError of the call, or the
\* PipelineError of the engine.
run_graph_error ==
    IF run_graph_outcome = "TypeError"
    THEN "run_graph() got an unexpected keyword argument"
    ELSE "PipelineError"

\* The coroutine runs up to its await of asyncio.to_thread.
TaskStart(e) ==
    /\ task[e].pc = "scheduled"
    /\ task' = [task EXCEPT ![e].pc = "awaiting"]
    /\ UNCHANGED <<loopvars, SERVER_STATE, dag, codec, users, APP_STATE, error_logs, db, post, lock, outq,
                   statusSending, execFrames>>

TaskFinalize_FallsThrough(e) ==
    /\ task[e].pc = "awaiting"
    /\ task' = [task EXCEPT ![e].pc = "done"]
    /\ db' = update_execution_status(
                update_execution_status(db, e, "failed", "error", encode_summary("error")),
                e, "finished", "summary", encode_summary("summary"))
    /\ outq' = [outq EXCEPT ![task[e].conn] =
          Append(Append(@, Frame(0, task[e].request_id, CODE_PIPELINE_FINISHED_ERROR,
                                 e, 0, 0, 0, "error")),
                 Frame(0, task[e].request_id, CODE_PIPELINE_FINISHED_OK,
                       e, 0, 0, 0, "success"))]
    /\ UNCHANGED <<loopvars, SERVER_STATE, dag, codec, users, APP_STATE, error_logs, post, lock,
                   statusSending, execFrames>>

TaskFinalize_NoTerminalFrame(e) ==
    /\ task[e].pc = "awaiting"
    /\ task' = [task EXCEPT ![e].pc = "done"]
    /\ db' = update_execution_status(db, e, "failed", "error", encode_summary("error"))
    /\ UNCHANGED <<loopvars, SERVER_STATE, dag, codec, users, APP_STATE, error_logs, post, lock, outq,
                   statusSending, execFrames>>

TaskFinalize_RowLeftRunning(e) ==
    /\ task[e].pc = "awaiting"
    /\ task' = [task EXCEPT ![e].pc = "done"]
    /\ outq' = [outq EXCEPT ![task[e].conn] =
          Append(@, Frame(0, task[e].request_id, CODE_PIPELINE_FINISHED_ERROR,
                          e, 0, 0, 0, "error"))]
    /\ UNCHANGED <<loopvars, SERVER_STATE, dag, codec, users, APP_STATE, error_logs, db, post, lock,
                   statusSending, execFrames>>

\* log_error: INSERT INTO error_logs a row naming the execution.
log_error(L, e) == L \cup {e}

\* The await ends.  On an exception the row is set to failed with the error
\* summary as output and status_callback posts the 307 frame (the
\* PipelineError branch also calls log_error, the generic branch only the
\* process logger); otherwise the row is set to finished with the summary
\* and status_callback posts 207.  The 307 frame carries str(exc).
\* status_callback posts to the outbound queue of the originating connection
\* with the originating message id as requestId.
TaskFinalize(e) ==
    /\ task[e].pc = "awaiting"
    /\ task' = [task EXCEPT ![e].pc = "done"]
    /\ IF run_graph_outcome = "returns"
       THEN /\ db' = update_execution_status(db, e, "finished", "summary", encode_summary("summary"))
            /\ outq' = [outq EXCEPT ![task[e].conn] =
                  Append(@, Frame(0, task[e].request_id, CODE_PIPELINE_FINISHED_OK,
                                  e, 0, 0, 0, "success"))]
       ELSE /\ db' = update_execution_status(db, e, "failed", "error", encode_summary("error"))
            /\ outq' = [outq EXCEPT ![task[e].conn] =
                  Append(@, Frame(0, task[e].request_id, CODE_PIPELINE_FINISHED_ERROR,
                                  e, 0, 0, 0, run_graph_error))]
    /\ error_logs' = IF run_graph_outcome = "PipelineError"
                     THEN log_error(error_logs, e)
                     ELSE error_logs
    /\ UNCHANGED <<loopvars, SERVER_STATE, dag, codec, users, APP_STATE, post, lock,
                   statusSending, execFrames>>

\* ------------------------------------------- the per-connection dispatcher
LockFree_NoLock(l) == TRUE

\* The dispatcher mutex is free.
LockFree(l) == l = "free"

\* The frames about an execution: its acknowledgement, status and terminal
\* frames.
AboutExecution(f) ==
    f.executionId # 0 /\ f.type \in {CODE_EXECUTION_FROM_DB_OK, CODE_EXECUTION_FROM_PAYLOAD_OK,
                                     205, 305,
                                     CODE_PIPELINE_FINISHED_OK, CODE_PIPELINE_FINISHED_ERROR}

RecordSent(c, f) ==
    /\ wire' = [wire EXCEPT ![c] = Append(@, <<"out", f.id>>)]
    /\ last_message_id' = [last_message_id EXCEPT ![c] = f.id]

\* The loop's send of its response: take the lock and message_id =
\* last_message_id + 1.
DispatcherAcquireLoop(c) ==
    /\ pc[c] = "send"
    /\ LockFree(lock[c])
    /\ lock' = [lock EXCEPT ![c] = "loop"]
    /\ pending' = [pending EXCEPT ![c].id = last_message_id[c] + 1]
    /\ pc' = [pc EXCEPT ![c] = "sending"]
    /\ UNCHANGED <<closeCode, hello, last_message_id, nrecv, lastIn, pendingKind,
                   emitted, wire, SERVER_STATE, dag, codec, users, APP_STATE, error_logs, db, task, post,
                   outq, statusSending, execFrames>>

\* ... send, advance last_message_id, release; the coroutine the handler
\* returned is scheduled once its acknowledgement is out.
DispatcherSendLoop(c) ==
    /\ pc[c] = "sending"
    /\ RecordSent(c, pending[c])
    /\ lock' = [lock EXCEPT ![c] = "free"]
    /\ pending' = [pending EXCEPT ![c] = NoFrame]
    /\ pendingKind' = [pendingKind EXCEPT ![c] = "none"]
    /\ pc' = [pc EXCEPT ![c] = "recv"]
    /\ IF post[c] # 0
       THEN /\ task' = [task EXCEPT ![post[c]].pc = "scheduled"]
            /\ execFrames' = [execFrames EXCEPT ![post[c]] = Append(@, pending[c])]
       ELSE UNCHANGED <<task, execFrames>>
    /\ post' = [post EXCEPT ![c] = 0]
    /\ UNCHANGED <<closeCode, hello, nrecv, lastIn, emitted, SERVER_STATE, dag, codec, users, APP_STATE, error_logs,
                   db, outq, statusSending>>

\* A posted status frame: take the lock and message_id = last_message_id + 1.
DispatcherAcquireStatus(c) ==
    /\ outq[c] # <<>>
    /\ statusSending[c] = NoFrame
    /\ LockFree(lock[c])
    /\ lock' = [lock EXCEPT ![c] = "status"]
    /\ statusSending' = [statusSending EXCEPT ![c] =
          [Head(outq[c]) EXCEPT !.id = last_message_id[c] + 1]]
    /\ outq' = [outq EXCEPT ![c] = Tail(@)]
    /\ UNCHANGED <<loopvars, SERVER_STATE, dag, codec, users, APP_STATE, error_logs, db, task, post, execFrames>>

\* ... send, advance last_message_id, release.
DispatcherSendStatus(c) ==
    /\ statusSending[c] # NoFrame
    /\ RecordSent(c, statusSending[c])
    /\ lock' = [lock EXCEPT ![c] = "free"]
    /\ execFrames' = [execFrames EXCEPT ![statusSending[c].executionId] =
          Append(@, statusSending[c])]
    /\ statusSending' = [statusSending EXCEPT ![c] = NoFrame]
    /\ UNCHANGED <<pc, closeCode, hello, nrecv, lastIn, pending, pendingKind, emitted,
                   SERVER_STATE, dag, codec, users, APP_STATE, db, error_logs, task, post, outq>>

\* ------------------------------------------- the app's connection loop
AppRequests(id) ==
    {RawFrame(TRUE, JInt(id), JInt(0), JInt(100), CObj(Content("good", "none", "none", "none", 0))),
     RawFrame(TRUE, JInt(id), JInt(0), JInt(103), CObj(Content("none", "none", "demo", "none", 0))),
     RawFrame(TRUE, JInt(id), JInt(0), JInt(103), CObj(Content("none", "none", "nope", "none", 0))),
     RawFrame(TRUE, JInt(id), JInt(0), JInt(104), CObj(Content("none", "none", "none", "some", 0))),
     RawFrame(TRUE, JInt(id), JInt(0), JInt(104), CEmpty),
     RawFrame(TRUE, JInt(id), JInt(0), JInt(150), CEmpty)}
    \cup {RawFrame(TRUE, JInt(id), JInt(0), JInt(t), CObj(Content("none", "none", "none", "none", e))) :
            t \in {106, 107}, e \in 0..MaxExec}

AppInboundFrames(id) ==
    AppRequests(id)
    \cup {RawFrame(TRUE, JInt(id + 1), JInt(0), JInt(103),
                    CObj(Content("none", "none", "demo", "none", 0))),
           NotJson}

\* recv, then parse fails: the error frame with the codec's error code.
AppRecvParseError(c) ==
    /\ pc[c] = "recv"
    /\ nrecv < MaxFrames
    /\ \E raw \in AppInboundFrames(last_message_id[c] + 1) :
        /\ ~parse(raw).ok
        /\ lastIn' = [lastIn EXCEPT ![c] = NoIn]
        /\ pending' = [pending EXCEPT ![c] =
              Frame(0, 0, parse(raw).error_code, 0, 0, 0, 0, "protocol error")]
    /\ pendingKind' = [pendingKind EXCEPT ![c] = "parse"]
    /\ nrecv' = nrecv + 1
    /\ pc' = [pc EXCEPT ![c] = "send"]
    /\ UNCHANGED <<closeCode, hello, last_message_id, emitted, wire, SERVER_STATE, dag, codec, users, appvars>>

\* recv, parse succeeds, the id is not the expected one: the 395 frame.
AppRecvBadId(c) ==
    /\ pc[c] = "recv"
    /\ nrecv < MaxFrames
    /\ \E raw \in AppInboundFrames(last_message_id[c] + 1) :
        LET m == parse(raw)
            expected_id == last_message_id[c] + 1
        IN  /\ m.ok
            /\ m.message_id # expected_id
            /\ lastIn' = [lastIn EXCEPT ![c] =
                  [id |-> m.message_id, type |-> m.type_code,
                   parsed |-> TRUE, accepted |-> FALSE, executionId |-> 0]]
            /\ pending' = [pending EXCEPT ![c] =
                  Frame(0, m.message_id, CODE_MESSAGE_ID_ERROR,
                        0, expected_id, m.message_id, 0, "incorrect message id")]
    /\ pendingKind' = [pendingKind EXCEPT ![c] = "badid"]
    /\ nrecv' = nrecv + 1
    /\ pc' = [pc EXCEPT ![c] = "send"]
    /\ UNCHANGED <<closeCode, hello, last_message_id, emitted, wire, SERVER_STATE, dag, codec, users, appvars>>

\* recv, parse succeeds, the id matches: last_message_id takes the id and the
\* message is routed; an unknown type is answered 396.
AppRecvRouteFrom(c, frames) ==
    /\ pc[c] = "recv"
    /\ nrecv < MaxFrames
    /\ \E raw \in frames :
        LET m == parse(raw)
            known == m.type_code \in REQUEST_TYPES
            out == IF known
                   THEN route_message(m, c, APP_STATE, db, task)
                   ELSE AppOutcome(Result(CODE_UNKNOWN_TYPE, 0, 0, "unsupported type"),
                                   db, task, 0)
        IN  /\ m.ok
            /\ m.message_id = last_message_id[c] + 1
            /\ out.result # NoResult
            /\ lastIn' = [lastIn EXCEPT ![c] =
                  [id |-> m.message_id, type |-> m.type_code,
                   parsed |-> TRUE, accepted |-> TRUE,
                   executionId |-> IF m.isobj THEN m.content.executionId ELSE 0]]
            /\ last_message_id' = [last_message_id EXCEPT ![c] = m.message_id]
            /\ wire' = [wire EXCEPT ![c] = Append(@, <<"in", m.message_id>>)]
            /\ db' = out.db
            /\ task' = out.task
            /\ post' = [post EXCEPT ![c] = out.post]
            /\ pending' = [pending EXCEPT ![c] =
                  build_status_response(0, m.message_id, out.result)]
    /\ pendingKind' = [pendingKind EXCEPT ![c] = "response"]
    /\ pc' = [pc EXCEPT ![c] = "send"]
    /\ nrecv' = nrecv + 1
    /\ UNCHANGED <<closeCode, hello, emitted, SERVER_STATE, dag, codec, users, APP_STATE, error_logs, lock, outq,
                   statusSending, execFrames>>

AppRecvRoute(c) == AppRecvRouteFrom(c, AppInboundFrames(last_message_id[c] + 1))

\* The control path that sets the admission flags of SERVER_STATE.
SetServerFlags ==
    /\ \E flag \in {"maintenance_mode", "executions_halted"} :
        APP_STATE' = [APP_STATE EXCEPT ![flag] = ~@]
    /\ UNCHANGED <<loopvars, SERVER_STATE, dag, codec, users, db, error_logs, task, post, lock,
                   outq, statusSending, execFrames>>

NextApp ==
    \/ \E c \in Conns :
        \/ Handshake(c)
        \/ AppRecvParseError(c)
        \/ AppRecvBadId(c)
        \/ AppRecvRoute(c)
        \/ DispatcherAcquireLoop(c)
        \/ DispatcherSendLoop(c)
        \/ DispatcherAcquireStatus(c)
        \/ DispatcherSendStatus(c)
    \/ \E e \in ExecIds :
        \/ TaskStart(e)
        \/ TaskFinalize(e)

\* The app as the sources have it: nothing sets the admission flags.
SpecApp == Init /\ [][NextApp]_vars

\* The app with the control path setting the admission flags, one client.
NextAdmission ==
    \/ Handshake(1)
    \/ AppRecvParseError(1)
    \/ AppRecvBadId(1)
    \/ AppRecvRoute(1)
    \/ DispatcherAcquireLoop(1)
    \/ DispatcherSendLoop(1)
    \/ DispatcherAcquireStatus(1)
    \/ DispatcherSendStatus(1)
    \/ \E e \in ExecIds :
        \/ TaskStart(e)
        \/ TaskFinalize(e)
    \/ SetServerFlags

SpecAdmission == Init /\ [][NextAdmission]_vars

\* The handlers for stop and output requests applied to every table the
\* store can hold when a client connects: the SQLite file outlives the
\* server process, so rows of earlier runs are there in any status.
StoredRows ==
    {NoRow,
     Row("running", "none", "none", FALSE, "db"),
     Row("finished", "summary", encode_summary("summary"), TRUE, "db"),
     Row("failed", "error", encode_summary("error"), TRUE, "db"),
     Row("stopped", "none", "none", TRUE, "db"),
     Row("stopped", "error", encode_summary("error"), TRUE, "db"),
     Row("stopped", "summary", encode_summary("summary"), TRUE, "db")}

StoredRequests(id) ==
    {RawFrame(TRUE, JInt(id), JInt(0), JInt(t), CObj(Content("none", "none", "none", "none", e))) :
        t \in {106, 107}, e \in 0..MaxExec}

InitStored ==
    /\ APP_STATE = default_server_state
    /\ db \in [ExecIds -> StoredRows]
    /\ error_logs = {}
    /\ task = [e \in ExecIds |-> NoTask]
    /\ post = [c \in Conns |-> 0]
    /\ lock = [c \in Conns |-> "free"]
    /\ outq = [c \in Conns |-> <<>>]
    /\ statusSending = [c \in Conns |-> NoFrame]
    /\ execFrames = [e \in ExecIds |-> <<>>]
    /\ pc = [c \in Conns |-> "handshake"]
    /\ closeCode = [c \in Conns |-> 0]
    /\ hello = [c \in Conns |-> NoHello]
    /\ last_message_id = [c \in Conns |-> 0]
    /\ nrecv = 0
    /\ lastIn = [c \in Conns |-> NoIn]
    /\ pending = [c \in Conns |-> NoFrame]
    /\ pendingKind = [c \in Conns |-> "none"]
    /\ emitted = [c \in Conns |-> <<>>]
    /\ wire = [c \in Conns |-> <<>>]
    /\ SERVER_STATE = default_server_state_standalone
    /\ dag = NoDag
    /\ codec = NoCodec
    /\ users = NoUsers

NextStored ==
    \/ Handshake(1)
    \/ AppRecvRouteFrom(1, StoredRequests(last_message_id[1] + 1))
    \/ DispatcherAcquireLoop(1)
    \/ DispatcherSendLoop(1)

SpecStored == InitStored /\ [][NextStored]_vars

\* The app with one client, the event loop running every ready task: the
\* background coroutines, and the dispatcher's sends (asyncio.Lock hands the
\* lock over in arrival order, so a waiting status frame gets it).
NextAppOne ==
    \/ Handshake(1)
    \/ AppRecvParseError(1)
    \/ AppRecvBadId(1)
    \/ AppRecvRoute(1)
    \/ DispatcherAcquireLoop(1)
    \/ DispatcherSendLoop(1)
    \/ DispatcherAcquireStatus(1)
    \/ DispatcherSendStatus(1)
    \/ \E e \in ExecIds :
        \/ TaskStart(e)
        \/ TaskFinalize(e)

SpecAppFair ==
    /\ Init
    /\ [][NextAppOne]_vars
    /\ \A e \in ExecIds : WF_vars(TaskStart(e)) /\ WF_vars(TaskFinalize(e))
    /\ WF_vars(DispatcherAcquireLoop(1))
    /\ WF_vars(DispatcherSendLoop(1))
    /\ SF_vars(DispatcherAcquireStatus(1))
    /\ WF_vars(DispatcherSendStatus(1))

\* ================================================================ claims
\* The ids of the frames a connection has sent, in wire order.
OutIds(c) == SelectSeq(wire[c], LAMBDA w : w[1] = "out")
InIds(c) == SelectSeq(wire[c], LAMBDA w : w[1] = "in")

\* C1 as stated: the ids of the frames the server emits on a connection are
\* 1, 2, 3, ... without a gap.
C1_EmittedIdsGaplessFromOne ==
    \A c \in Conns : \A i \in 1..Len(OutIds(c)) : OutIds(c)[i][2] = i

\* C1 (amended): the ids of the emitted frames are strictly increasing, and
\* the ids consumed on a connection, by the accepted inbound frames and the
\* emitted frames together, are 1, 2, 3, ... without a gap; an emitted frame
\* takes the id after the one consumed just before it.
C1_ConsumedIdsGapless ==
    \A c \in Conns :
        /\ \A i \in 1..Len(wire[c]) : wire[c][i][2] = i
        /\ \A i, j \in 1..Len(OutIds(c)) : i < j => OutIds(c)[i][2] < OutIds(c)[j][2]

C1_Witness ==
    \E c \in Conns :
        /\ Len(OutIds(c)) >= 2
        /\ Len(InIds(c)) >= 1
        /\ Len(InIds(c)) < Len(OutIds(c))

\* C3: an inbound frame that parses with an id other than last_message_id + 1
\* is answered by exactly one 395 frame with id = expected id, requestId =
\* received id and content {expectedId, receivedId, "incorrect message id"};
\* last_message_id then is the expected id, and an inbound frame is accepted
\* only with id last_message_id + 1.
C3_ReadBadId(c) ==
    (pc[c] = "recv" /\ pc'[c] = "send" /\ lastIn'[c].parsed /\ ~lastIn'[c].accepted)
    => /\ lastIn'[c].id # last_message_id[c] + 1
       /\ pending'[c] = Frame(last_message_id[c] + 1, lastIn'[c].id,
                              CODE_MESSAGE_ID_ERROR, 0, last_message_id[c] + 1,
                              lastIn'[c].id, 0, "incorrect message id")
       /\ emitted'[c] = <<>>
       /\ last_message_id'[c] = last_message_id[c]

C3_SendBadId(c) ==
    (pc[c] = "send" /\ pc'[c] # "send" /\ lastIn[c].parsed /\ ~lastIn[c].accepted)
    => /\ pc'[c] = "recv"
       /\ emitted'[c] = <<pending[c]>>
       /\ pending[c].type = CODE_MESSAGE_ID_ERROR
       /\ last_message_id'[c] = last_message_id[c] + 1
       /\ last_message_id'[c] = pending[c].id

C3_AcceptsOnlyExpected(c) ==
    (Len(InIds(c)') > Len(InIds(c)))
    => wire'[c][Len(wire'[c])] = <<"in", last_message_id[c] + 1>>

C3_MessageIdError ==
    [][\A c \in Conns : C3_ReadBadId(c) /\ C3_SendBadId(c) /\ C3_AcceptsOnlyExpected(c)]_vars

C3_Witness ==
    \E c \in Conns :
        /\ pc[c] = "recv"
        /\ lastIn[c].parsed /\ ~lastIn[c].accepted
        /\ Len(emitted[c]) = 1
        /\ emitted[c][1].type = CODE_MESSAGE_ID_ERROR
        /\ emitted[c][1].receivedId = emitted[c][1].expectedId + 1
        /\ last_message_id[c] = 3

\* C4: every inbound frame whose id matches last_message_id + 1 is answered,
\* before the next inbound frame is read, by exactly one response frame with
\* requestId = the request's id and id = the request's id + 1.
C4_AcceptedIsAnswered ==
    \A c \in Conns :
        lastIn[c].accepted =>
            /\ pc[c] \in {"send", "recv", "closed"}
            /\ pc[c] = "send" =>
                  /\ pending[c].requestId = lastIn[c].id
                  /\ pending[c].id = lastIn[c].id + 1
            /\ pc[c] \in {"recv", "closed"} =>
                  /\ Len(emitted[c]) = 1
                  /\ emitted[c][1].requestId = lastIn[c].id
                  /\ emitted[c][1].id = lastIn[c].id + 1


\* C2: under every interleaving of the loop's response sends and the status
\* sends of background executions on one connection, an outbound frame takes
\* last_message_id + 1 under the dispatcher lock and last_message_id advances
\* to it with the send: outbound ids strictly increase in wire order (so no
\* two are equal) and no id up to last_message_id is skipped.
C2_Ids(c) ==
    /\ \A i, j \in 1..Len(OutIds(c)) : i < j => OutIds(c)[i][2] < OutIds(c)[j][2]
    /\ \A i \in 1..last_message_id[c] : \E k \in 1..Len(wire[c]) : wire[c][k][2] = i
    /\ pc[c] = "sending" => lock[c] = "loop" /\ pending[c].id = last_message_id[c] + 1
    /\ statusSending[c] # NoFrame => lock[c] = "status"

C2_Send(c) ==
    (Len(OutIds(c)') > Len(OutIds(c)))
    => /\ wire'[c][Len(wire'[c])] = <<"out", last_message_id'[c]>>
       /\ last_message_id'[c] >= last_message_id[c]
       /\ lock[c] # "free" /\ lock'[c] = "free"

C2_OutboundIdsSerialised ==
    /\ [](\A c \in Conns : C2_Ids(c))
    /\ [][\A c \in Conns : C2_Send(c)]_vars

C2_Witness ==
    \E c \in Conns :
        /\ pc[c] = "send"
        /\ lock[c] = "status"
        /\ Len(OutIds(c)) >= 1

\* C5: the number of execution rows with status queued or running never
\* exceeds max_concurrent_executions; a 103/104 request handled when that
\* number has reached the cap creates no row and no coroutine, and (its
\* fields being valid and no admission flag set) is answered 397 with the
\* active count.
C5_Reject(c) ==
    (/\ pc[c] = "recv" /\ pc'[c] = "send"
     /\ lastIn'[c].accepted /\ lastIn'[c].type \in {103, 104}
     /\ count_active_executions(db) >= APP_STATE.max_concurrent_executions)
    => /\ db' = db /\ task' = task /\ post'[c] = 0
       /\ (/\ pending'[c].type \notin {CODE_EXECUTION_FROM_DB_ERROR,
                                       CODE_EXECUTION_FROM_PAYLOAD_ERROR}
           /\ ~APP_STATE.maintenance_mode /\ ~APP_STATE.executions_halted)
          => /\ pending'[c].type = CODE_TOO_MANY_EXECUTIONS
             /\ pending'[c].activeExecutions = count_active_executions(db)

C5_ActiveWithinCap ==
    /\ [](count_active_executions(db) <= APP_STATE.max_concurrent_executions)
    /\ [][\A c \in Conns : C5_Reject(c)]_vars

C5_Witness ==
    \E c \in Conns, e \in ExecIds :
        /\ pc[c] = "send"
        /\ pending[c].type = CODE_TOO_MANY_EXECUTIONS
        /\ db[e].status = "running"
        /\ task[e].conn # c
        /\ count_active_executions(db) = APP_STATE.max_concurrent_executions

\* C6: a 103/104 request with valid fields is checked against
\* maintenance_mode (399), then executions_halted (398), then the active
\* count against the cap (397 with activeExecutions); the first that holds
\* decides the response, and then no row is created and no coroutine built.
C6_Admit(c) ==
    (/\ pc[c] = "recv" /\ pc'[c] = "send"
     /\ lastIn'[c].accepted /\ lastIn'[c].type \in {103, 104}
     /\ pending'[c].type \notin {CODE_EXECUTION_FROM_DB_ERROR,
                                 CODE_EXECUTION_FROM_PAYLOAD_ERROR})
    => /\ pending'[c].type =
            (IF APP_STATE.maintenance_mode THEN CODE_MAINTENANCE_MODE
             ELSE IF APP_STATE.executions_halted THEN CODE_EXECUTIONS_HALTED
             ELSE IF count_active_executions(db) >= APP_STATE.max_concurrent_executions
                  THEN CODE_TOO_MANY_EXECUTIONS
             ELSE IF lastIn'[c].type = 103 THEN CODE_EXECUTION_FROM_DB_OK
             ELSE CODE_EXECUTION_FROM_PAYLOAD_OK)
       /\ pending'[c].type \in {CODE_MAINTENANCE_MODE, CODE_EXECUTIONS_HALTED,
                                CODE_TOO_MANY_EXECUTIONS}
          => db' = db /\ task' = task /\ post'[c] = 0
       /\ pending'[c].type = CODE_TOO_MANY_EXECUTIONS
          => pending'[c].activeExecutions = count_active_executions(db)

C6_AdmissionOrder == [][\A c \in Conns : C6_Admit(c)]_vars

C6_Witness ==
    /\ pc[1] = "send"
    /\ pending[1].type = CODE_MAINTENANCE_MODE
    /\ APP_STATE.maintenance_mode /\ APP_STATE.executions_halted
    /\ count_active_executions(db) >= APP_STATE.max_concurrent_executions

\* C7: an execution's status changes only from queued or running to
\* finished, failed or stopped; a row holding finished, failed or stopped
\* keeps it.
C7_TerminalSticky ==
    [][\A e \in ExecIds :
          (db[e].status # "none" /\ db'[e].status # db[e].status)
          => /\ db[e].status \in ActiveStatuses
             /\ db'[e].status \in TerminalStatuses]_vars

\* C8: for every execution row, completed_at is non-null exactly when the
\* status is finished, failed or stopped.
C8_CompletedAtIffTerminal ==
    \A e \in ExecIds :
        db[e].status # "none" =>
            (db[e].completed_at <=> db[e].status \in TerminalStatuses)

C8_Witness ==
    \E e, f \in ExecIds :
        /\ db[e].status = "stopped" /\ db[e].completed_at
        /\ db[f].status = "running" /\ ~db[f].completed_at

\* C9: the frames about one execution appear on the wire as the 203/204
\* acknowledgement, then 205/305 status frames, then exactly one terminal
\* 207/307 frame and nothing after it; the status and terminal frames carry
\* the acknowledged executionId and the id of the originating request as
\* requestId.
IsAck(f) == f.type \in {CODE_EXECUTION_FROM_DB_OK, CODE_EXECUTION_FROM_PAYLOAD_OK}
IsStatus(f) == f.type \in {205, 305}
IsTerminal(f) == f.type \in {CODE_PIPELINE_FINISHED_OK, CODE_PIPELINE_FINISHED_ERROR}

TerminalFrames(e) == SelectSeq(execFrames[e], IsTerminal)

LastPosted(q, t) == Len(q) >= 1 /\ q[Len(q)].type = t

C10_Ends(e) ==
    (task[e].pc = "awaiting" /\ task'[e].pc = "done")
    => \/ /\ db'[e].status = "finished"
          /\ LastPosted(outq'[task[e].conn], CODE_PIPELINE_FINISHED_OK)
       \/ /\ db'[e].status = "failed"
          /\ LastPosted(outq'[task[e].conn], CODE_PIPELINE_FINISHED_ERROR)

C11_ErrorLogged ==
    [][\A e \in ExecIds :
          (task[e].pc = "awaiting" /\ task'[e].pc = "done"
             /\ run_graph_outcome # "returns")
          => /\ db'[e].status = "failed"
             /\ db'[e].output_file = "error"
             /\ LastPosted(outq'[task[e].conn], CODE_PIPELINE_FINISHED_ERROR)
             /\ e \in error_logs']_vars

\* C12: a 107 request naming an existing execution is answered with 207
\* carrying the execution id and the decoded stored content exactly when the
\* stored status is finished; for status failed it is answered with 307
\* carrying the decoded error summary, for status running with 307
\* "execution is still running"; the table is left as it is.
C12_Output(c) ==
    \A e \in ExecIds :
        (/\ pc[c] = "recv" /\ pc'[c] = "send"
         /\ lastIn'[c].accepted /\ lastIn'[c].type = 107
         /\ lastIn'[c].executionId = e
         /\ db[e].status # "none")
        => /\ (pending'[c].type = CODE_PIPELINE_FINISHED_OK) <=> (db[e].status = "finished")
           /\ pending'[c].type \in {CODE_PIPELINE_FINISHED_OK, CODE_PIPELINE_FINISHED_ERROR}
           /\ pending'[c].requestId = lastIn'[c].id
           /\ db[e].status = "finished"
              => /\ pending'[c].executionId = e
                 /\ pending'[c].info = "summary"
           /\ db[e].status = "failed"
              => /\ pending'[c].executionId = e
                 /\ pending'[c].info = "error"
           /\ db[e].status = "running" => pending'[c].info = "still running"
           /\ db' = db

C12_OutputIffFinished == [][\A c \in Conns : C12_Output(c)]_vars

C12_Witness ==
    /\ pc[1] = "send"
    /\ lastIn[1].accepted /\ lastIn[1].type = 107
    /\ pending[1].type = CODE_PIPELINE_FINISHED_OK
    /\ db[lastIn[1].executionId].status = "finished"
    /\ \E e \in ExecIds : db[e].status = "stopped" /\ db[e].output_file = "summary"

\* C13: a 106 request naming an existing execution, whatever its status, is
\* answered with 206 carrying the execution id and "stopped", and the stored
\* status of that execution is stopped when the response is sent; a 106
\* request with a missing or unknown executionId is answered with 306 and
\* changes no execution row.
C13_Handle(c) ==
    (/\ pc[c] = "recv" /\ pc'[c] = "send"
     /\ lastIn'[c].accepted /\ lastIn'[c].type = 106)
    => LET e == lastIn'[c].executionId IN
       IF e # 0 /\ db[e].status # "none"
       THEN /\ pending'[c].type = CODE_STOP_EXECUTION_OK
            /\ pending'[c].executionId = e
            /\ pending'[c].info = "stopped"
            /\ db'[e].status = "stopped"
            /\ \A f \in ExecIds \ {e} : db'[f] = db[f]
       ELSE /\ pending'[c].type = CODE_STOP_EXECUTION_ERROR
            /\ db' = db

C13_Sent(c) ==
    (pc[c] = "sending" /\ pc'[c] = "recv"
       /\ pending[c].type = CODE_STOP_EXECUTION_OK)
    => db[pending[c].executionId].status = "stopped"

C13_HandlerStops == [][\A c \in Conns : C13_Handle(c)]_vars

C13_StoppedWhenSent == [][\A c \in Conns : C13_Handle(c) /\ C13_Sent(c)]_vars

\* C14: with max_concurrent_executions at its default 1, at no time are the
\* background engine runs of two executions in flight at once.
InFlight == {e \in ExecIds : task[e].pc \in {"scheduled", "awaiting"}}

C14_StrictlySerial ==
    APP_STATE.max_concurrent_executions = 1 => Cardinality(InFlight) <= 1

\* C15: a well-numbered inbound frame whose type is none of 100, 101, 102,
\* 103, 104, 106, 107 (105 included) is answered with type 396, requestId =
\* the frame's id and id = the frame's id + 1; the frame's id is consumed, no
\* handler runs, and the connection goes on to read the next frame.
UnknownTypes == {105, 150}

C15_Route(c) ==
    (/\ pc[c] = "recv" /\ pc'[c] # "recv" /\ nrecv' = nrecv + 1
     /\ lastIn'[c].accepted /\ lastIn'[c].type \in UnknownTypes)
    => /\ pc'[c] = "send"
       /\ lastIn'[c].id = last_message_id[c] + 1
       /\ last_message_id'[c] = lastIn'[c].id
       /\ pending'[c].type = CODE_UNKNOWN_TYPE
       /\ pending'[c].requestId = lastIn'[c].id
       /\ pending'[c].id = lastIn'[c].id + 1
       /\ SERVER_STATE' = SERVER_STATE

C15_Answer(c) ==
    (/\ pc[c] = "send" /\ pc'[c] # "send"
     /\ lastIn[c].accepted /\ lastIn[c].type \in UnknownTypes)
    => /\ pc'[c] = "recv"
       /\ emitted'[c] = <<pending[c]>>
       /\ pending[c].type = CODE_UNKNOWN_TYPE
       /\ last_message_id'[c] = lastIn[c].id + 1

C15_UnknownType == [][\A c \in Conns : C15_Route(c) /\ C15_Answer(c)]_vars

C15_Witness ==
    \E c \in Conns :
        /\ pc[c] = "recv"
        /\ lastIn[c].accepted /\ lastIn[c].type = 105
        /\ Len(emitted[c]) = 1
        /\ emitted[c][1].type = CODE_UNKNOWN_TYPE
        /\ emitted[c][1].id = 4
        /\ last_message_id[c] = 4

\* C16: when an inbound frame cannot be parsed, exactly one error frame is
\* emitted, with id = last_message_id + 1, requestId = 0 and the codec's
\* error code 396; last_message_id increases by exactly one, so that the
\* next inbound id accepted is the error frame's id + 1.
C16_Read(c) ==
    (pc[c] = "recv" /\ pc'[c] # "recv" /\ nrecv' = nrecv + 1 /\ ~lastIn'[c].parsed)
    => /\ pc'[c] = "send"
       /\ pendingKind'[c] = "parse"
       /\ pending'[c].id = last_message_id[c] + 1
       /\ pending'[c].requestId = 0
       /\ pending'[c].type = CODE_UNKNOWN_TYPE
       /\ last_message_id'[c] = last_message_id[c]
       /\ SERVER_STATE' = SERVER_STATE

C16_Sent(c) ==
    (pc[c] = "send" /\ pc'[c] # "send" /\ pendingKind[c] = "parse")
    => /\ pc'[c] = "recv"
       /\ emitted'[c] = <<pending[c]>>
       /\ last_message_id'[c] = last_message_id[c] + 1
       /\ last_message_id'[c] = pending[c].id

C16_NextAccepted(c) ==
    (pc[c] = "recv" /\ nrecv' = nrecv + 1 /\ pc'[c] # "recv"
       /\ Len(emitted[c]) = 1 /\ ~lastIn[c].parsed /\ lastIn'[c].accepted)
    => lastIn'[c].id = emitted[c][1].id + 1

C16_ParseError ==
    [][\A c \in Conns : C16_Read(c) /\ C16_Sent(c) /\ C16_NextAccepted(c)]_vars

\* C17: after a successful handshake the connection loop never ends because
\* of an error: every inbound frame, one whose content is not a JSON object
\* included, is answered with a frame and the loop reads on; it ends only
\* when the client disconnects.
C17_LoopSurvives ==
    /\ \A c \in Conns : pc[c] # "crashed"
    /\ \A c \in Conns : pc[c] = "closed" => closeCode[c] # 0 \/ pending[c] = NoFrame

\* C18: a connection whose username and password do not both equal the
\* configured pair is closed with 4401; otherwise one whose negotiated
\* sub-protocol is not "alger" is closed with 4406 (credentials first, so a
\* connection failing both gets 4401); in both cases no inbound frame is
\* read or answered and no handler runs.
C18_Rejected(c) ==
    LET bad_credentials == hello[c].username # "admin" \/ hello[c].password # "admin"
        bad_subprotocol == hello[c].subprotocol # "alger"
    IN  pc[c] # "handshake" =>
          /\ bad_credentials => closeCode[c] = 4401
          /\ ~bad_credentials /\ bad_subprotocol => closeCode[c] = 4406
          /\ ~bad_credentials /\ ~bad_subprotocol => closeCode[c] = 0
          /\ closeCode[c] # 0 =>
                /\ pc[c] = "closed"
                /\ wire[c] = <<>> /\ emitted[c] = <<>>
                /\ lastIn[c] = NoIn /\ pending[c] = NoFrame
                /\ last_message_id[c] = 0

C18_Quiet(c) ==
    (closeCode[c] # 0 \/ closeCode'[c] # 0)
    => /\ nrecv' = nrecv \/ \E d \in Conns \ {c} : pc'[d] # pc[d]
       /\ SERVER_STATE' = SERVER_STATE \/ \E d \in Conns \ {c} : pc'[d] # pc[d]

C18_Handshake ==
    /\ [](\A c \in Conns : C18_Rejected(c))
    /\ [][\A c \in Conns : C18_Quiet(c)]_vars

C18_Witness ==
    \E c, d \in Conns :
        /\ closeCode[c] = 4401
        /\ hello[c].username = "admin" /\ hello[c].password = "none"
        /\ hello[c].subprotocol = "none"
        /\ closeCode[d] = 4406
        /\ hello[d].subprotocol = "none"


\* ------------------------------------------- app/dag/engine.py: the engine
\* A simplified graph is [kinds, params, edges]: node ids are 1..Len(kinds)
\* in the order of the "nodes" list, kinds[i] and params[i] are node i's kind
\* and params, edges is the "edges" list in order, each entry <<source,
\* target>>.  The insertion order of nodes and edges is kept because networkx
\* iterates in it.
Strategies == {"kahn", "dfs"}
Kinds == {"dataset", "identity", "concat"}

\* REGISTRY: the arity of the kinds used here (max_inputs None = unbounded).
REGISTRY ==
    [dataset  |-> [min_inputs |-> 0, bounded |-> TRUE,  max_inputs |-> 0],
     identity |-> [min_inputs |-> 1, bounded |-> TRUE,  max_inputs |-> 1],
     concat   |-> [min_inputs |-> 2, bounded |-> FALSE, max_inputs |-> 0]]

\* NodeType.validate_arity: TRUE when it does not raise.
validate_arity(node_type, n_inputs) ==
    /\ n_inputs >= node_type.min_inputs
    /\ node_type.bounded => n_inputs <= node_type.max_inputs

NodeSeq(g) == [i \in 1..Len(g.kinds) |-> i]
NodeIds(g) == 1..Len(g.kinds)

RECURSIVE Project(_, _, _, _)
\* The far ends of the edges at node n, in edge insertion order, each once
\* (G.add_edge of an edge already there changes nothing): end 1 = sources of
\* the edges into n, end 2 = targets of the edges out of n.
Project(edges, n, end, acc) ==
    IF edges = <<>> THEN acc
    ELSE LET e == Head(edges)
             far == e[end]
             hit == e[3 - end] = n /\ \A k \in 1..Len(acc) : acc[k] # far
         IN  Project(Tail(edges), n, end, IF hit THEN Append(acc, far) ELSE acc)

\* G.predecessors(n), G.successors(n), G.in_degree(n), G.out_degree(n).
predecessors(g, n) == Project(g.edges, n, 1, <<>>)
successors(g, n) == Project(g.edges, n, 2, <<>>)
in_degree_CountsParallel(g, n) ==
    Len(SelectSeq(g.edges, LAMBDA e : e[2] = n))
in_degree(g, n) == Len(predecessors(g, n))
out_degree(g, n) == Len(successors(g, n))

Elems(seq) == {seq[k] : k \in 1..Len(seq)}
Reverse(seq) == [k \in 1..Len(seq) |-> seq[Len(seq) + 1 - k]]
Filter(seq, S) == SelectSeq(seq, LAMBDA x : x \in S)
PositionIn(order, n) == CHOOSE k \in 1..Len(order) : order[k] = n

RECURSIVE Descendants(_, _, _)
\* The nodes reachable from the set S by one or more edges (k rounds left).
Descendants(g, S, k) ==
    LET next == UNION {Elems(successors(g, u)) : u \in S}
    IN  IF k = 0 THEN {} ELSE next \cup Descendants(g, next, k - 1)

is_directed_acyclic_graph_IgnoresSelfLoops(g) ==
    LET h == [g EXCEPT !.edges = SelectSeq(g.edges, LAMBDA e : e[1] # e[2])]
    IN  \A u \in NodeIds(h) : u \notin Descendants(h, {u}, Len(h.kinds))

\* nx.is_directed_acyclic_graph(G).
is_directed_acyclic_graph(g) ==
    \A u \in NodeIds(g) : u \notin Descendants(g, {u}, Len(g.kinds))

\* The edges along a path of nodes.
PathEdges(path) == [k \in 1..(Len(path) - 1) |-> <<path[k], path[k + 1]>>]

RECURSIVE CycleVisit(_, _, _, _), CycleChildren(_, _, _, _, _)
\* Depth-first detection: path is the active path from the start node to u,
\* st = [explored, cycle].  The first edge that leads back into the active
\* path closes the cycle, which is the part of the path from that node on
\* plus the closing edge.
CycleVisit(g, u, path, st) ==
    LET left == CycleChildren(g, u, successors(g, u), path, st)
    IN  IF left.cycle # <<>> THEN left
        ELSE [left EXCEPT !.explored = @ \cup {u}]
CycleChildren(g, u, children, path, st) ==
    IF children = <<>> \/ st.cycle # <<>> THEN st
    ELSE LET c == Head(children)
         IN  IF c \in Elems(path)
             THEN [st EXCEPT !.cycle =
                     PathEdges(SubSeq(path, PositionIn(path, c), Len(path)))
                        \o <<(<<u, c>>)>>]
             ELSE IF c \in st.explored
             THEN CycleChildren(g, u, Tail(children), path, st)
             ELSE CycleChildren(g, u, Tail(children), path,
                                CycleVisit(g, c, Append(path, c), st))

RECURSIVE CycleRoots(_, _, _)
CycleRoots(g, roots, st) ==
    IF roots = <<>> \/ st.cycle # <<>> THEN st
    ELSE CycleRoots(g, Tail(roots),
                    IF Head(roots) \in st.explored THEN st
                    ELSE CycleVisit(g, Head(roots), <<Head(roots)>>, st))

\* nx.find_cycle(G, orientation="original"): the edges of one cycle, found
\* depth-first from the nodes in node order (<<>> when there is none).
find_cycle(g) == CycleRoots(g, NodeSeq(g), [explored |-> {}, cycle |-> <<>>]).cycle

\* sources and sinks, in node order.
sources(g) == Filter(NodeSeq(g), {n \in NodeIds(g) : in_degree(g, n) = 0})
sinks(g) == Filter(NodeSeq(g), {n \in NodeIds(g) : out_degree(g, n) = 0})

\* What a rejected call raises.
PipelineError(what, cycle) == [what |-> what, cycle |-> cycle]
NoError == PipelineError("none", <<>>)

\* for nid, data in G.nodes(data=True): what the node-type validation finds
\* at node n ("ok" when it passes).
NodeTypeCheck(g, n) ==
    IF g.kinds[n] \notin DOMAIN REGISTRY THEN "unknown kind"
    ELSE IF ~validate_arity(REGISTRY[g.kinds[n]], in_degree(g, n)) THEN "arity"
    ELSE "ok"

\* The validations of execute_simplified_graph, in the code's order: the
\* PipelineError of the first one that fails, NoError when all pass.  The
\* node-type validation goes through the nodes in order and stops at the
\* first node that fails either of its two checks.
Validation(g) ==
    IF Cardinality(Elems(g.ids)) # Len(g.ids)
    THEN PipelineError("Duplicate node ids", <<>>)
    ELSE IF \E k \in 1..Len(g.edges) :
            g.edges[k][1] \notin NodeIds(g) \/ g.edges[k][2] \notin NodeIds(g)
    THEN PipelineError("Edge refers to missing node", <<>>)
    ELSE IF ~is_directed_acyclic_graph(g)
    THEN PipelineError("Pipeline must be a DAG", find_cycle(g))
    ELSE IF \E n \in NodeIds(g) : NodeTypeCheck(g, n) # "ok"
    THEN LET first == CHOOSE n \in NodeIds(g) :
                        /\ NodeTypeCheck(g, n) # "ok"
                        /\ \A m \in 1..(n - 1) : NodeTypeCheck(g, m) = "ok"
         IN  PipelineError(NodeTypeCheck(g, first), <<>>)
    ELSE IF Len(g.kinds) = 0
    THEN PipelineError("Graph is empty", <<>>)
    ELSE IF Len(sinks(g)) = 0
    THEN PipelineError("Graph has no terminal (sink) nodes", <<>>)
    ELSE NoError

Validates(g) == Validation(g) = NoError

RECURSIVE RelaxChildren(_, _, _)
\* One node of a generation: every child loses one unit of in-degree, in
\* adjacency order, and joins the next generation when it reaches zero.
RelaxChildren(children, indegree_map, zero_indegree) ==
    IF children = <<>> THEN [indegree_map |-> indegree_map,
                             zero_indegree |-> zero_indegree]
    ELSE LET child == Head(children)
             d == indegree_map[child] - 1
         IN  RelaxChildren(Tail(children),
                           [indegree_map EXCEPT ![child] = d],
                           IF d = 0 THEN Append(zero_indegree, child)
                                    ELSE zero_indegree)

RECURSIVE RelaxGeneration(_, _, _, _)
RelaxGeneration(g, this_generation, indegree_map, zero_indegree) ==
    IF this_generation = <<>> THEN [indegree_map |-> indegree_map,
                                    zero_indegree |-> zero_indegree]
    ELSE LET r == RelaxChildren(successors(g, Head(this_generation)),
                                indegree_map, zero_indegree)
         IN  RelaxGeneration(g, Tail(this_generation),
                             r.indegree_map, r.zero_indegree)

RECURSIVE Generations(_, _, _)
Generations(g, this_generation, indegree_map) ==
    IF this_generation = <<>> THEN <<>>
    ELSE LET r == RelaxGeneration(g, this_generation, indegree_map, <<>>)
         IN  this_generation \o Generations(g, r.zero_indegree, r.indegree_map)

\* list(nx.topological_sort(G)): Kahn's algorithm by generations, each
\* generation in the order its nodes reached in-degree zero.
topological_sort(g) ==
    Generations(g, sources(g), [n \in NodeIds(g) |-> in_degree(g, n)])

RECURSIVE DfsVisit(_, _, _), DfsChildren(_, _, _)
\* Depth-first visit of node u; st = [visited, post].  A node is appended to
\* post when all of its children are done.
DfsVisit(g, u, st) ==
    LET entered == [st EXCEPT !.visited = @ \cup {u}]
        left == DfsChildren(g, successors(g, u), entered)
    IN  [left EXCEPT !.post = Append(@, u)]
DfsChildren(g, children, st) ==
    IF children = <<>> THEN st
    ELSE DfsChildren(g, Tail(children),
                     IF Head(children) \in st.visited THEN st
                     ELSE DfsVisit(g, Head(children), st))

\* list(nx.dfs_postorder_nodes(G, source=src)): one traversal from src.
dfs_postorder_nodes(g, src) ==
    DfsVisit(g, src, [visited |-> {}, post |-> <<>>]).post

RECURSIVE DfsRoots(_, _, _)
DfsRoots(g, roots, st) ==
    IF roots = <<>> THEN st
    ELSE DfsRoots(g, Tail(roots),
                  IF Head(roots) \in st.visited THEN st
                  ELSE DfsVisit(g, Head(roots), st))

\* list(nx.dfs_postorder_nodes(G)): every node in turn is a root.
dfs_postorder_all(g) ==
    DfsRoots(g, NodeSeq(g), [visited |-> {}, post |-> <<>>]).post

RECURSIVE AppendUnseen(_, _)
\* for n in nodes: if n not in seen: seen.add(n); postorder.append(n)
AppendUnseen(postorder, nodes) ==
    IF nodes = <<>> THEN postorder
    ELSE AppendUnseen(IF Head(nodes) \in Elems(postorder) THEN postorder
                      ELSE Append(postorder, Head(nodes)),
                      Tail(nodes))

RECURSIVE PostorderFromSources(_, _, _)
PostorderFromSources(g, srcs, postorder) ==
    IF srcs = <<>> THEN postorder
    ELSE PostorderFromSources(g, Tail(srcs),
            AppendUnseen(postorder, dfs_postorder_nodes(g, Head(srcs))))

\* The "dfs" branch up to the reversal: a fresh traversal from every source,
\* keeping each node's first appearance, then the remaining nodes.
dfs_postorder(g) ==
    AppendUnseen(PostorderFromSources(g, sources(g), <<>>), dfs_postorder_all(g))

dfs_order_NotReversed(g) == dfs_postorder(g)

\* order = list(reversed(postorder))
dfs_order(g) == Reverse(dfs_postorder(g))

\* The order the strategy derives.
order_of(g, strategy) ==
    IF strategy = "kahn" THEN topological_sort(g) ELSE dfs_order(g)

\* The node functions.  An input is [shape, value] (see NodeInput).  A value is an array seen as the sequence of its
\* blocks along axis 0, each block marked with its (Y, X) dimensions: a
\* dataset node produces one block fixed by its seed and shape params,
\* identity passes its input on, concat joins its inputs along axis 0 in the
\* order given and raises PipelineError when they do not share (Y, X).
Block(seed, yx) == [seed |-> seed, yx |-> yx]
NoValue == <<>>

RECURSIVE Concatenate(_)
Concatenate(arrs) ==
    IF arrs = <<>> THEN <<>> ELSE Head(arrs) \o Concatenate(Tail(arrs))

\* The result of calling fn: raised, or the output.
Returned(output) == [raised |-> FALSE, output |-> output]
Raised == [raised |-> TRUE, output |-> NoValue]

_fn_concat(inp) ==
    IF inp.shape # "list" \/ Len(inp.value) < 2 THEN Raised
    ELSE IF Cardinality({inp.value[j][1].yx : j \in 1..Len(inp.value)}) > 1
    THEN Raised
    ELSE Returned(Concatenate(inp.value))
_fn_dataset(params) == Returned(<<Block(params.seed, params.shape)>>)
_fn_identity(inp) == Returned(inp.value)

\* node_input: None, the single predecessor's output, or the list of the
\* predecessors' outputs, in the order of preds.
NodeInput(preds, outputs) ==
    IF Len(preds) = 0 THEN [shape |-> "None", value |-> NoValue]
    ELSE IF Len(preds) = 1 THEN [shape |-> "single", value |-> outputs[preds[1]]]
    ELSE [shape |-> "list", value |-> [j \in 1..Len(preds) |-> outputs[preds[j]]]]

\* node.node_type.fn(node_input, node.params)
CallFn(kind, node_input, params) ==
    IF kind = "dataset" THEN _fn_dataset(params)
    ELSE IF kind = "identity" THEN _fn_identity(node_input)
    ELSE _fn_concat(node_input)

Completed(order, k) == {order[j] : j \in 1..(k - 1)}

\* What one round of the execution loop did: the node, its predecessors, the
\* input it was given and what fn did with it.
Round(nid, preds, node_input, result) ==
    [node_id |-> nid, preds |-> preds, node_input |-> node_input,
     raised |-> result.raised, output |-> result.output]

ExecuteNode_InputsByCompletion(g, order, k, outputs) ==
    LET nid == order[k]
        preds == Filter(order, Elems(predecessors(g, nid)))
        node_input == NodeInput(preds, outputs)
    IN  Round(nid, preds, node_input, CallFn(g.kinds[nid], node_input, g.params[nid]))

ExecuteNode_InputsReversed(g, order, k, outputs) ==
    LET nid == order[k]
        preds == predecessors(g, nid)
        node_input == NodeInput(Reverse(preds), outputs)
    IN  Round(nid, preds, node_input, CallFn(g.kinds[nid], node_input, g.params[nid]))

\* One round of the execution loop, for the k-th node of the order: preds is
\* list(G.predecessors(nid)), the input is assembled from outputs, fn runs.
ExecuteNode(g, order, k, outputs) ==
    LET nid == order[k]
        preds == predecessors(g, nid)
        node_input == NodeInput(preds, outputs)
    IN  Round(nid, preds, node_input, CallFn(g.kinds[nid], node_input, g.params[nid]))

\* A call's progress: the order, the outputs computed so far, how many nodes
\* of the order are done, how the call stands, and the observer's calls.
Run(order, outputs, done, status, observed) ==
    [order |-> order, outputs |-> outputs, done |-> done, status |-> status,
     observed |-> observed]
NoRun == Run(<<>>, <<>>, 0, "none", <<>>)

\* The engine's state: the graph it was called on, the PipelineError of the
\* validations, and one call per strategy.
Dag(p, g, error, runs) == [pc |-> p, simplified |-> g, error |-> error, runs |-> runs]

\* The simplified graphs handed to the engine: 0..MaxNodes nodes and up to
\* MaxEdges edges in any order: distinct edges between different nodes, or
\* such a list followed by one self-loop, by one of its edges again or by
\* one edge to or from a node that is not listed.  Every node has the kind
\* its number of inputs admits, except at most one node (wrong), whose
\* kind's arity its inputs break, and at most one node (unknown), whose kind
\* is not registered; the last node may repeat the id of the first (dup);
\* every dataset has the same shape, except that node 1 may have another
\* one (odd).
CleanEdgeLists(n, m) ==
    LET pairs == {e \in (1..n) \X (1..n) : e[1] # e[2]}
    IN  UNION {{es \in [1..k -> pairs] : \A i, j \in 1..k : es[i] = es[j] => i = j}
               : k \in 0..m}
EdgeLists(n) ==
    CleanEdgeLists(n, MaxEdges)
    \cup UNION {{Append(es, e) :
                   e \in {<<i, i>> : i \in 1..n} \cup Elems(es)
                         \cup {<<1, n + 1>>, <<n + 1, 1>>}}
                : es \in CleanEdgeLists(n, MaxEdges - 1)}
KindFor(n_inputs, fits) ==
    IF fits THEN (IF n_inputs = 0 THEN "dataset"
                  ELSE IF n_inputs = 1 THEN "identity" ELSE "concat")
    ELSE (IF n_inputs = 1 THEN "concat" ELSE "identity")
Graph(n, es, v) ==
    [ids |-> [i \in 1..n |-> IF v.dup /\ i = n THEN 1 ELSE i],
     kinds |-> [i \in 1..n |->
                  IF i = v.unknown THEN "mystery"
                  ELSE KindFor(Len(Project(es, i, 1, <<>>)), i # v.wrong)],
     params |-> [i \in 1..n |->
                  [seed |-> i, shape |-> IF i = 1 /\ v.odd THEN "5x5" ELSE "64x64"]],
     edges |-> es]
Variants(n) ==
    {[wrong |-> i, unknown |-> j, dup |-> d, odd |-> o] :
        i \in 0..n, j \in 0..n, d \in BOOLEAN, o \in BOOLEAN}
Graphs(n) ==
    {Graph(n, es, v) :
        es \in EdgeLists(n),
        v \in {w \in Variants(n) :
                 /\ (w.wrong # 0 /\ w.unknown # 0) => w.wrong < w.unknown
                 /\ w.dup => n >= 2 /\ w.wrong = 0 /\ w.unknown \in {0, 1}
                 /\ w.odd => w.wrong = 0 /\ w.unknown = 0 /\ ~w.dup}}

\* execute_simplified_graph is called on the same simplified graph once per
\* strategy (as test_dfs_strategy_matches_kahn does).
InitDag ==
    /\ \E n \in 0..MaxNodes : \E g \in Graphs(n) :
            dag = Dag("called", g, NoError, [s \in Strategies |-> NoRun])
    /\ APP_STATE = default_server_state
    /\ db = [e \in ExecIds |-> NoRow]
    /\ error_logs = {}
    /\ task = [e \in ExecIds |-> NoTask]
    /\ post = [c \in Conns |-> 0]
    /\ lock = [c \in Conns |-> "free"]
    /\ outq = [c \in Conns |-> <<>>]
    /\ statusSending = [c \in Conns |-> NoFrame]
    /\ execFrames = [e \in ExecIds |-> <<>>]
    /\ pc = [c \in Conns |-> "handshake"]
    /\ closeCode = [c \in Conns |-> 0]
    /\ hello = [c \in Conns |-> NoHello]
    /\ last_message_id = [c \in Conns |-> 0]
    /\ nrecv = 0
    /\ lastIn = [c \in Conns |-> NoIn]
    /\ pending = [c \in Conns |-> NoFrame]
    /\ pendingKind = [c \in Conns |-> "none"]
    /\ emitted = [c \in Conns |-> <<>>]
    /\ wire = [c \in Conns |-> <<>>]
    /\ SERVER_STATE = default_server_state_standalone
    /\ codec = NoCodec
    /\ users = NoUsers

dagframe == <<loopvars, SERVER_STATE, appvars, codec, users>>

\* Build, validate, choose the order: PipelineError, or both calls enter the
\* execution loop with no outputs yet.
DagValidate ==
    /\ dag.pc = "called"
    /\ LET g == dag.simplified
       IN  IF ~Validates(g)
           THEN dag' = Dag("PipelineError", g, Validation(g), dag.runs)
           ELSE dag' = Dag("executing", g, NoError,
                           [s \in Strategies |->
                              Run(order_of(g, s), [n \in NodeIds(g) |-> NoValue],
                                  0, "executing", <<>>)])
    /\ UNCHANGED dagframe

\* for nid in order: one node of one call.  outputs[p] of a predecessor not
\* yet computed is a KeyError that ends the call, and so does an exception
\* raised by fn; otherwise the output is stored and the observer is called.
\* After the last node the call returns its ExecutionResult.
DagExecuteNode(s) ==
    /\ dag.pc = "executing"
    /\ dag.runs[s].status = "executing"
    /\ LET g == dag.simplified
           r == dag.runs[s]
           k == r.done + 1
           round == ExecuteNode(g, r.order, k, r.outputs)
       IN  IF k > Len(r.order)
           THEN dag' = [dag EXCEPT !.runs[s].status = "returned"]
           ELSE IF ~(Elems(predecessors(g, r.order[k])) \subseteq Completed(r.order, k))
           THEN dag' = [dag EXCEPT !.runs[s].status = "KeyError"]
           ELSE IF round.raised
           THEN dag' = [dag EXCEPT !.runs[s].status = "PipelineError"]
           ELSE dag' = [dag EXCEPT
                          !.runs[s].outputs[r.order[k]] = round.output,
                          !.runs[s].done = k,
                          !.runs[s].observed = Append(@, round)]
    /\ UNCHANGED dagframe

NextDag == DagValidate \/ \E s \in Strategies : DagExecuteNode(s)

SpecDag == InitDag /\ [][NextDag]_vars

\* --------------------------------------------------------------- C19
\* C19: for every graph that passes validation, the order a call of
\* execute_simplified_graph derives, under "kahn" and under "dfs", holds
\* every node id exactly once and places u before v for every edge u -> v.
IsTopologicalOrder(g, order) ==
    /\ Len(order) = Len(g.kinds)
    /\ Elems(order) = NodeIds(g)
    /\ \A k \in 1..Len(g.edges) :
            PositionIn(order, g.edges[k][1]) < PositionIn(order, g.edges[k][2])

C19_TopologicalOrder ==
    dag.pc = "executing" =>
        \A s \in Strategies : IsTopologicalOrder(dag.simplified, dag.runs[s].order)

\* Both calls returned, on a graph with two sources feeding one node, and the
\* two strategies chose different orders.
C19_Witness ==
    /\ dag.pc = "executing"
    /\ \A s \in Strategies : dag.runs[s].status = "returned"
    /\ Len(sources(dag.simplified)) >= 2
    /\ Len(dag.simplified.edges) >= 2
    /\ dag.runs["kahn"].order # dag.runs["dfs"].order

\* --------------------------------------------------------------- C20
\* C20: for every valid graph of deterministic nodes, the call under "kahn"
\* and the call under "dfs" return the same output at every sink.
C20_SinkOutputsAgree ==
    (/\ dag.pc = "executing"
     /\ \A s \in Strategies : dag.runs[s].status = "returned")
    => \A n \in Elems(sinks(dag.simplified)) :
            dag.runs["kahn"].outputs[n] = dag.runs["dfs"].outputs[n]

\* Both calls returned with different orders, and a sink joins the outputs
\* of two nodes that the two orders ran in opposite order.
C20_Witness ==
    /\ dag.pc = "executing"
    /\ \A s \in Strategies : dag.runs[s].status = "returned"
    /\ \E n \in Elems(sinks(dag.simplified)) :
          /\ dag.simplified.kinds[n] = "concat"
          /\ Len(dag.runs["kahn"].outputs[n]) >= 2
          /\ \E p, q \in Elems(predecessors(dag.simplified, n)) :
                /\ PositionIn(dag.runs["kahn"].order, p)
                     < PositionIn(dag.runs["kahn"].order, q)
                /\ PositionIn(dag.runs["dfs"].order, q)
                     < PositionIn(dag.runs["dfs"].order, p)

\* --------------------------------------------------------------- C21
\* C21: for every graph that contains a cycle (a self-loop included) the call
\* raises the PipelineError of the DAG validation, the error reports one
\* cycle of the graph, and no node function and no observer is invoked.
\* A graph here is one that G could be built from: node ids all different
\* and every edge between listed nodes.
Built(g) ==
    /\ \A i, j \in 1..Len(g.ids) : g.ids[i] = g.ids[j] => i = j
    /\ \A k \in 1..Len(g.edges) : g.edges[k] \in NodeIds(g) \X NodeIds(g)

EdgeSet(g) == {g.edges[k] : k \in 1..Len(g.edges)}

HasCycle(g) ==
    \E k \in 1..Len(g.kinds) : \E w \in [1..k -> NodeIds(g)] :
        /\ \A j \in 1..(k - 1) : <<w[j], w[j + 1]>> \in EdgeSet(g)
        /\ <<w[k], w[1]>> \in EdgeSet(g)

IsCycleOf(g, cyc) ==
    /\ cyc # <<>>
    /\ \A k \in 1..Len(cyc) : cyc[k] \in EdgeSet(g)
    /\ \A k \in 1..(Len(cyc) - 1) : cyc[k][2] = cyc[k + 1][1]
    /\ cyc[Len(cyc)][2] = cyc[1][1]

C21_Refuse ==
    (dag.pc = "called" /\ Built(dag.simplified) /\ HasCycle(dag.simplified))
    => /\ dag'.pc = "PipelineError"
       /\ dag'.error.what = "Pipeline must be a DAG"
       /\ IsCycleOf(dag.simplified, dag'.error.cycle)
       /\ \A s \in Strategies : dag'.runs[s] = NoRun

C21_CycleRejected ==
    /\ [][C21_Refuse]_vars
    /\ [](dag.pc = "PipelineError" => ~ENABLED NextDag)

\* A graph with a cycle over two or more nodes was refused.
C21_Witness ==
    /\ dag.pc = "PipelineError"
    /\ Len(dag.error.cycle) >= 2
    /\ \A s \in Strategies : dag.runs[s].observed = <<>>

\* --------------------------------------------------------------- C22
\* C22: a graph in which some node's number of distinct input sources lies
\* outside [min_inputs, max_inputs] of its kind (parallel duplicate edges
\* count once, an unbounded max_inputs never rejects) is rejected before any
\* node runs; a graph in which every node is within bounds is not rejected
\* for arity.
InputSources(g, n) == {e[1] : e \in {f \in EdgeSet(g) : f[2] = n}}

WithinArity(g, n) ==
    LET d == Cardinality(InputSources(g, n))
    IN  CASE g.kinds[n] = "dataset"  -> d = 0
          [] g.kinds[n] = "identity" -> d = 1
          [] g.kinds[n] = "concat"   -> d >= 2
          [] OTHER                   -> TRUE

C22_Validate ==
    dag.pc = "called" =>
        /\ (\E n \in NodeIds(dag.simplified) : ~WithinArity(dag.simplified, n))
           => /\ dag'.pc = "PipelineError"
              /\ \A s \in Strategies : dag'.runs[s] = NoRun
        /\ (\A n \in NodeIds(dag.simplified) : WithinArity(dag.simplified, n))
           => dag'.error.what # "arity"

C22_ArityChecked == [][C22_Validate]_vars

\* A concat node fed twice by one and the same source was rejected for arity.
C22_Witness ==
    /\ dag.pc = "PipelineError"
    /\ dag.error.what = "arity"
    /\ \E n \in NodeIds(dag.simplified) :
          /\ dag.simplified.kinds[n] = "concat"
          /\ Len(SelectSeq(dag.simplified.edges, LAMBDA e : e[2] = n)) = 2
          /\ Cardinality(InputSources(dag.simplified, n)) = 1
          /\ \A m \in NodeIds(dag.simplified) \ {n} : WithinArity(dag.simplified, m)

\* --------------------------------------------------------------- C23
\* C23: when a node function raises during execution, the observer is
\* invoked exactly once for that node with the error set, and no later node
\* of the order runs.
C23_NodeFails(s) ==
    (dag.pc = "executing" /\ dag.runs[s].status = "executing"
        /\ dag'.runs[s].status = "PipelineError")
    => LET failed == dag.runs[s].order[dag.runs[s].done + 1]
           seen == dag'.runs[s].observed
       IN  /\ Len(seen) = Len(dag.runs[s].observed) + 1
           /\ seen[Len(seen)].node_id = failed
           /\ seen[Len(seen)].raised

C23_Aborted(s) ==
    dag.runs[s].status = "PipelineError" => dag'.runs[s] = dag.runs[s]

C23_ObserverSeesError ==
    [][\A s \in Strategies : C23_NodeFails(s) /\ C23_Aborted(s)]_vars

\* --------------------------------------------------------------- C24
\* C24: the observer is called once per executed node, in execution order;
\* every node of the order is invoked at most once and only after all its
\* predecessors have an output; its input is None for no predecessor, the
\* predecessor's output itself for one, and the list of the predecessors'
\* outputs in predecessor-iteration order for two or more; a run that
\* returns on n nodes has n observer events.
OutputSeen(seen, k, p) ==
    LET j == CHOOSE i \in 1..(k - 1) : seen[i].node_id = p
    IN  seen[j].output

C24_Event(g, r, k) ==
    LET ev == r.observed[k]
        preds == ev.preds
    IN  /\ ev.node_id = r.order[k]
        /\ ~ev.raised
        /\ \A j \in 1..(k - 1) : r.observed[j].node_id # ev.node_id
        /\ preds = predecessors(g, ev.node_id)
        /\ Elems(preds) = InputSources(g, ev.node_id)
        /\ \A p \in Elems(preds) : \E j \in 1..(k - 1) : r.observed[j].node_id = p
        /\ r.outputs[ev.node_id] = ev.output
        /\ ev.node_input.shape =
              (IF Len(preds) = 0 THEN "None"
               ELSE IF Len(preds) = 1 THEN "single" ELSE "list")
        /\ Len(preds) = 0 => ev.node_input.value = NoValue
        /\ Len(preds) = 1 => ev.node_input.value = OutputSeen(r.observed, k, preds[1])
        /\ Len(preds) >= 2 =>
              /\ Len(ev.node_input.value) = Len(preds)
              /\ \A j \in 1..Len(preds) :
                    ev.node_input.value[j] = OutputSeen(r.observed, k, preds[j])

C24_ExecutionLoop ==
    dag.pc = "executing" =>
        \A s \in Strategies :
            LET r == dag.runs[s]
            IN  /\ Len(r.observed) = r.done
                /\ \A k \in 1..Len(r.observed) : C24_Event(dag.simplified, r, k)
                /\ \A n \in NodeIds(dag.simplified) :
                      n \notin Completed(r.order, r.done + 1) => r.outputs[n] = NoValue
                /\ r.status = "returned" => r.done = Len(dag.simplified.kinds)

\* A run over three nodes returned with three observer events, one of them
\* for a node whose input was a list of two different outputs.
C24_Witness ==
    /\ dag.pc = "executing"
    /\ \E s \in Strategies :
          /\ dag.runs[s].status = "returned"
          /\ Len(dag.runs[s].observed) = 3
          /\ \E k \in 1..3 :
                /\ dag.runs[s].observed[k].node_input.shape = "list"
                /\ dag.runs[s].observed[k].node_input.value[1]
                      # dag.runs[s].observed[k].node_input.value[2]

\* --------------------------------------------------------------- C25
\* C25: a 104 request with a non-empty graph that fails engine validation is
\* acknowledged with 204 and gets a row; its coroutine ends with the row
\* failed and one terminal 307 frame that reports the engine's validation
\* error, and no 205/305 frame is sent for the execution.
C25_Ends(e) ==
    (task[e].type_code = 104 /\ task[e].pc = "awaiting" /\ task'[e].pc = "done")
    => LET q == outq'[task[e].conn]
       IN  /\ db'[e].status = "failed"
           /\ LastPosted(q, CODE_PIPELINE_FINISHED_ERROR)
           /\ q[Len(q)].executionId = e
           /\ q[Len(q)].info = "PipelineError"

C25_ValidationReported ==
    /\ [][\A e \in ExecIds : C25_Ends(e)]_vars
    /\ [](\A e \in ExecIds : \A i \in 1..Len(execFrames[e]) : ~IsStatus(execFrames[e][i]))

\* --------------------------------------------------------------- C26
\* C26: when the terminal 207 frame of an execution is emitted its row is
\* already finished, with the summary file and the encoded summary as
\* output, so it is not counted as active; once every started execution has
\* had its terminal frame, count_active_executions() is 0.
Started(e) == task[e].pc # "none"
HadTerminalFrame(e) == task[e].pc = "done"

C26_Emit207(e) ==
    (Started(e) /\ LastPosted(outq'[task[e].conn], CODE_PIPELINE_FINISHED_OK)
        /\ outq'[task[e].conn] # outq[task[e].conn]
        /\ outq'[task[e].conn][Len(outq'[task[e].conn])].executionId = e)
    => /\ db'[e].status = "finished"
       /\ db'[e].output_file = "summary"
       /\ db'[e].output_content = encode_summary("summary")

C27_Answer(c) ==
    \A e \in ExecIds :
        (/\ pc[c] = "recv" /\ pc'[c] = "send"
         /\ lastIn[c].accepted /\ lastIn[c].type = 103
         /\ task[e].type_code = 103 /\ task[e].conn = c
         /\ task[e].request_id = lastIn[c].id
         /\ lastIn'[c].accepted /\ lastIn'[c].type = 107
         /\ lastIn'[c].executionId = e)
        => /\ pending'[c].type = CODE_PIPELINE_FINISHED_OK
           /\ pending'[c].executionId = e
           /\ pending'[c].info = "summary"

C27_OutputRightAfterAck == [][\A c \in Conns : C27_Answer(c)]_vars

\* --------------------------------------------------------------- C28
\* C28: on a store holding only the seeded defaults, the execution started
\* by a 103 request for pipeline "demo" ends with its row finished and a
\* terminal 207 frame carrying the summary.
C28_Ends(e) ==
    (task[e].type_code = 103 /\ task[e].pc = "awaiting" /\ task'[e].pc = "done")
    => LET q == outq'[task[e].conn]
       IN  /\ db'[e].status = "finished"
           /\ db'[e].output_content = encode_summary("summary")
           /\ LastPosted(q, CODE_PIPELINE_FINISHED_OK)
           /\ q[Len(q)].executionId = e

C28_DemoFinishes == [][\A e \in ExecIds : C28_Ends(e)]_vars

\* ------------------------------------------- app/protocol.py: AlgerMessage
\* AlgerMessage.parse(raw_payload, error_code=...): as parse above, with the
\* code the caller chose in every ProtocolError.
AlgerMessage_parse(raw, error_code) ==
    IF ~raw.json THEN ParseFailure("ProtocolError", error_code)
    ELSE IF HeaderError(raw) = "OverflowError"
         THEN ParseFailure("OverflowError", 0)
    ELSE IF HeaderError(raw) = "ProtocolError"
         THEN ParseFailure("ProtocolError", error_code)
    ELSE IF raw.content.tag = "notstr"
         THEN ParseFailure("ProtocolError", error_code)
    ELSE IF raw.content.tag = "badjson"
         THEN ParseFailure("ProtocolError", error_code)
    ELSE [ok |-> TRUE,
          message_id |-> IntOf(raw.id).v,
          request_id |-> IntOf(raw.requestId).v,
          type_code |-> IntOf(raw.type).v,
          isobj |-> raw.content.tag # "nonobj",
          content |-> raw.content.obj]

\* AlgerMessage(message_id, request_id, type_code, content), content a dict.
AlgerMessage(message_id, request_id, type_code, content) ==
    [ok |-> TRUE, message_id |-> message_id, request_id |-> request_id,
     type_code |-> type_code, isobj |-> TRUE, content |-> content]

to_json_ContentNotEncoded(m) ==
    RawFrame(TRUE, JInt(m.message_id), JInt(m.request_id), JInt(m.type_code),
             [tag |-> "notstr", obj |-> m.content])

\* to_json: the JSON object with the three integers and, as content, the
\* string json.dumps(self.content), which encodes an object ("{}" for {}).
to_json(m) ==
    RawFrame(TRUE, JInt(m.message_id), JInt(m.request_id), JInt(m.type_code),
             CObj(m.content))

\* The frame in the codec: a message to serialise, or a payload to parse
\* with the error code the caller chose, and what parse made of it.
Codec(p, message, raw, error_code, result) ==
    [pc |-> p, message |-> message, raw |-> raw, error_code |-> error_code,
     result |-> result]
NoMessage == AlgerMessage(0, 0, 0, EmptyContent)
NoParse == ParseFailure("none", 0)

\* Well-formed messages, and payloads of every shape.
Messages ==
    {AlgerMessage(i, r, t, o) :
        i \in 0..MaxFrames, r \in 0..1, t \in {100, 107, 150},
        o \in {EmptyContent,
               Content("good", "none", "none", "none", 0),
               Content("none", "none", "demo", "none", 0),
               Content("none", "none", "none", "none", 1)}}
Payloads ==
    {NotJson}
    \cup {RawFrame(TRUE, i, r, t, o) :
            i \in {JInt(1), JNumStr(1), JInf, JStr, JNull, JMissing},
            r \in {JInt(0), JNumStr(0), JStr, JMissing},
            t \in {JInt(100), JNull, JMissing},
            o \in {CMissing, CNotStr, CBadJson, CEmpty, CNonObj, CObj(EmptyContent)}}
ErrorCodes == {CODE_UNKNOWN_TYPE, CODE_MESSAGE_ID_ERROR}

InitCodec ==
    /\ \/ \E m \in Messages, code \in ErrorCodes :
            codec = Codec("message", m, NotJson, code, NoParse)
       \/ \E raw \in Payloads, code \in ErrorCodes :
            codec = Codec("wire", NoMessage, raw, code, NoParse)
    /\ dag = NoDag
    /\ users = NoUsers
    /\ APP_STATE = default_server_state
    /\ db = [e \in ExecIds |-> NoRow]
    /\ error_logs = {}
    /\ task = [e \in ExecIds |-> NoTask]
    /\ post = [c \in Conns |-> 0]
    /\ lock = [c \in Conns |-> "free"]
    /\ outq = [c \in Conns |-> <<>>]
    /\ statusSending = [c \in Conns |-> NoFrame]
    /\ execFrames = [e \in ExecIds |-> <<>>]
    /\ pc = [c \in Conns |-> "handshake"]
    /\ closeCode = [c \in Conns |-> 0]
    /\ hello = [c \in Conns |-> NoHello]
    /\ last_message_id = [c \in Conns |-> 0]
    /\ nrecv = 0
    /\ lastIn = [c \in Conns |-> NoIn]
    /\ pending = [c \in Conns |-> NoFrame]
    /\ pendingKind = [c \in Conns |-> "none"]
    /\ emitted = [c \in Conns |-> <<>>]
    /\ wire = [c \in Conns |-> <<>>]
    /\ SERVER_STATE = default_server_state_standalone

codecframe == <<loopvars, SERVER_STATE, appvars, dag, users>>

CodecSerialize ==
    /\ codec.pc = "message"
    /\ codec' = [codec EXCEPT !.pc = "wire", !.raw = to_json(codec.message)]
    /\ UNCHANGED codecframe

CodecParse ==
    /\ codec.pc = "wire"
    /\ codec' = [codec EXCEPT !.pc = "parsed",
                              !.result = AlgerMessage_parse(codec.raw, codec.error_code)]
    /\ UNCHANGED codecframe

NextCodec == CodecSerialize \/ CodecParse

SpecCodec == InitCodec /\ [][NextCodec]_vars

\* --------------------------------------------------------------- C29
\* C29: for every well-formed message m (integer id, requestId and type, an
\* object as content), AlgerMessage.parse(m.to_json()) equals m.
C29_RoundTrip ==
    (codec.pc = "parsed" /\ codec.message # NoMessage)
    => codec.result = codec.message

\* A message with a non-empty content went through to_json and parse.
C29_Witness ==
    /\ codec.pc = "parsed"
    /\ codec.message.message_id = 2
    /\ codec.message.content.pipelineId = "demo"
    /\ codec.raw = to_json(codec.message)
    /\ codec.result.ok

\* --------------------------------------------------------------- C30
\* C30: AlgerMessage.parse fails with a ProtocolError carrying the chosen
\* error code for every frame that lacks one of id, requestId, type,
\* content, whose id, requestId or type is not an integer, or whose content
\* is not a string, and returns no message for such a frame.
IsInteger(x) == x.tag = "int"

Malformed(raw) ==
    \/ JMissing \in {raw.id, raw.requestId, raw.type}
    \/ raw.content.tag = "missing"
    \/ ~IsInteger(raw.id) \/ ~IsInteger(raw.requestId) \/ ~IsInteger(raw.type)
    \/ raw.content.tag = "notstr"

C30_Strict ==
    (codec.pc = "parsed" /\ codec.raw.json /\ Malformed(codec.raw))
    => /\ ~codec.result.ok
       /\ codec.result.raises = "ProtocolError"
       /\ codec.result.error_code = codec.error_code

\* --------------------------------------------------------------- C31
\* C31: the validations are applied in the order duplicate node ids, unknown
\* kind, dangling edge endpoint, acyclicity, per-node arity, empty graph, no
\* sinks: the error of a rejected graph is that of the first check in this
\* order that the graph violates.
FirstViolated(g) ==
    IF ~(\A i, j \in 1..Len(g.ids) : g.ids[i] = g.ids[j] => i = j)
    THEN "Duplicate node ids"
    ELSE IF \E n \in NodeIds(g) : g.kinds[n] \notin {"dataset", "identity", "concat"}
    THEN "unknown kind"
    ELSE IF \E k \in 1..Len(g.edges) : g.edges[k] \notin NodeIds(g) \X NodeIds(g)
    THEN "Edge refers to missing node"
    ELSE IF HasCycle(g)
    THEN "Pipeline must be a DAG"
    ELSE IF \E n \in NodeIds(g) : ~WithinArity(g, n)
    THEN "arity"
    ELSE IF NodeIds(g) = {}
    THEN "Graph is empty"
    ELSE IF \A n \in NodeIds(g) : \E e \in EdgeSet(g) : e[1] = n
    THEN "Graph has no terminal (sink) nodes"
    ELSE "none"

C31_ValidationOrder ==
    dag.pc = "PipelineError" => dag.error.what = FirstViolated(dag.simplified)

\* --------------------------------------------------------------- C32
\* C32: an inbound frame that fails to parse, or whose id is not
\* last_message_id + 1, is never routed: reading it changes neither
\* SERVER_STATE (no execution is created or stopped, the admission flags and
\* the slot count stay) nor last_message_id, and sending its error frame
\* advances last_message_id by one and changes nothing else of the server.
C32_Read(c) ==
    (pc[c] = "recv" /\ nrecv' = nrecv + 1 /\ pc'[c] # "recv" /\ ~lastIn'[c].accepted)
    => /\ SERVER_STATE' = SERVER_STATE
       /\ last_message_id'[c] = last_message_id[c]
       /\ wire' = wire

C32_Answer(c) ==
    (pc[c] = "send" /\ pendingKind[c] \in {"parse", "badid"} /\ pc'[c] = "recv")
    => /\ SERVER_STATE' = SERVER_STATE
       /\ last_message_id'[c] = last_message_id[c] + 1
       /\ emitted'[c] = <<pending[c]>>
       /\ pending[c].type \in {CODE_UNKNOWN_TYPE, CODE_MESSAGE_ID_ERROR}

C32_RejectedFrameInert == [][\A c \in Conns : C32_Read(c) /\ C32_Answer(c)]_vars

\* A stop request for a running execution arrived with a wrong id and was
\* answered 395: the execution is still running and holds its slot.
C32_Witness ==
    \E c \in Conns :
        /\ pc[c] = "recv"
        /\ lastIn[c].parsed /\ ~lastIn[c].accepted /\ lastIn[c].type = 106
        /\ Len(emitted[c]) = 1
        /\ emitted[c][1].type = CODE_MESSAGE_ID_ERROR
        /\ SERVER_STATE.executions[1] = "running"
        /\ SERVER_STATE.active_executions = 1

\* --------------------------------------------------------------- C33
\* C33: on one connection of server.py every id 1, 2, 3, ... is consumed
\* exactly once and in increasing order, by an accepted inbound frame or by
\* an emitted frame: whenever the loop is back at recv, last_message_id is
\* the number of accepted inbound frames plus the number of emitted frames.
C33_EveryIdConsumedOnce ==
    \A c \in Conns :
        /\ [k \in 1..Len(wire[c]) |-> wire[c][k][2]] = [k \in 1..Len(wire[c]) |-> k]
        /\ pc[c] = "recv" => last_message_id[c] = Len(InIds(c)) + Len(OutIds(c))

\* An error frame took id 1, an accepted request id 2 and its response id 3.
C33_Witness ==
    \E c \in Conns :
        /\ pc[c] = "recv"
        /\ last_message_id[c] = 3
        /\ wire[c] = <<(<<"out", 1>>), (<<"in", 2>>), (<<"out", 3>>)>>

\* --------------------------------------------------------------- C34
\* C34: a 107 request never modifies an execution row: status, output and
\* completed_at of every execution are the same after the request has been
\* handled as before; a running execution stays running.
C34_Handle107 ==
    (nrecv' = nrecv + 1 /\ lastIn'[1].accepted /\ lastIn'[1].type = 107)
    => /\ db' = db
       /\ task' = task
       /\ post'[1] = 0

C34_OutputRequestReadsOnly == [][C34_Handle107]_vars

\* The output of a running execution was asked for and refused, and the
\* execution is still running.
C34_Witness ==
    /\ pc[1] = "send"
    /\ lastIn[1].accepted /\ lastIn[1].type = 107
    /\ lastIn[1].executionId \in ExecIds
    /\ db[lastIn[1].executionId].status = "running"
    /\ ~db[lastIn[1].executionId].completed_at
    /\ pending[1].type = CODE_PIPELINE_FINISHED_ERROR
    /\ pending[1].info = "still running"

\* --------------------------------------------------------------- C35
\* C35: credentials are checked only at the handshake.  Handling a 100
\* request, whether it is answered 200 or 300, changes nothing a later
\* request's response is computed from (the handlers read the message and
\* SERVER_STATE only), so the responses to 101..107 do not depend on logins
\* sent earlier; a 100 request answered 300 does not close the connection,
\* which goes back to recv and accepts the next request.
C35_Login(c) ==
    (pc[c] = "recv" /\ pc'[c] # "recv" /\ nrecv' = nrecv + 1
        /\ lastIn'[c].accepted /\ lastIn'[c].type = 100)
    => /\ SERVER_STATE' = SERVER_STATE
       /\ closeCode' = closeCode
       /\ hello' = hello
       /\ pc'[c] = "send" => pending'[c].type \in {CODE_LOGIN_OK, CODE_LOGIN_UNKNOWN}

C35_Answered(c) ==
    (pc[c] = "send" /\ pc'[c] # "send"
        /\ pending[c].type \in {CODE_LOGIN_OK, CODE_LOGIN_UNKNOWN})
    => /\ pc'[c] = "recv"
       /\ closeCode'[c] = 0
       /\ SERVER_STATE' = SERVER_STATE

C35_NotLockedOut(c) ==
    (pc[c] = "recv" /\ nrecv < MaxFrames /\ Len(emitted[c]) = 1
        /\ emitted[c][1].type = CODE_LOGIN_UNKNOWN)
    => ENABLED RecvRoute(c)

Threads == {1, 2}
Usernames == {"admin", "guest"}
UserRow(id, username, display_name) ==
    [id |-> id, username |-> username, display_name |-> display_name]
NoUser == UserRow("none", "none", "none")

\* _fetch_user: the row with the given id or username, None without one.
_fetch_user(table, field, value) ==
    IF \E r \in table : r[field] = value
    THEN CHOOSE r \in table : r[field] = value
    ELSE NoUser

\* Both threads are about to call ensure_user; any of the users may be
\* stored already.
InitUsers ==
    /\ \E stored \in SUBSET Usernames :
       \E names \in [Threads -> Usernames] :
       \E defaults \in [Threads -> {"Administrator", "Operator"}] :
          users = [pc |-> "threads",
                   table |-> {UserRow(<<"stored", u>>, u, "Stored") : u \in stored},
                   th |-> [t \in Threads |->
                             [pc |-> "called", username |-> names[t],
                              display_name |-> defaults[t],
                              user_id |-> <<"none", 0>>, result |-> NoUser]]]
    /\ dag = NoDag
    /\ codec = NoCodec
    /\ APP_STATE = default_server_state
    /\ db = [e \in ExecIds |-> NoRow]
    /\ error_logs = {}
    /\ task = [e \in ExecIds |-> NoTask]
    /\ post = [c \in Conns |-> 0]
    /\ lock = [c \in Conns |-> "free"]
    /\ outq = [c \in Conns |-> <<>>]
    /\ statusSending = [c \in Conns |-> NoFrame]
    /\ execFrames = [e \in ExecIds |-> <<>>]
    /\ pc = [c \in Conns |-> "handshake"]
    /\ closeCode = [c \in Conns |-> 0]
    /\ hello = [c \in Conns |-> NoHello]
    /\ last_message_id = [c \in Conns |-> 0]
    /\ nrecv = 0
    /\ lastIn = [c \in Conns |-> NoIn]
    /\ pending = [c \in Conns |-> NoFrame]
    /\ pendingKind = [c \in Conns |-> "none"]
    /\ emitted = [c \in Conns |-> <<>>]
    /\ wire = [c \in Conns |-> <<>>]
    /\ SERVER_STATE = default_server_state_standalone

usersframe == <<loopvars, SERVER_STATE, appvars, dag, codec>>

\* user = self._fetch_user(username=username); if user: return user;
\* user_id = str(uuid4()).
EnsureUserFetch(t) ==
    /\ users.pc = "threads"
    /\ users.th[t].pc = "called"
    /\ LET user == _fetch_user(users.table, "username", users.th[t].username)
       IN  IF user # NoUser
           THEN users' = [users EXCEPT !.th[t].pc = "returned",
                                       !.th[t].result = user]
           ELSE users' = [users EXCEPT !.th[t].pc = "insert",
                                       !.th[t].user_id = <<"uuid4", t>>]
    /\ UNCHANGED usersframe

\* with self._lock, self._conn: INSERT INTO users ...: a sqlite3 error
\* (UNIQUE constraint failed: users.username) when a row with the username
\* is there (the transaction is rolled back and
\* the exception leaves ensure_user), otherwise the row is committed.
EnsureUserInsert(t) ==
    /\ users.pc = "threads"
    /\ users.th[t].pc = "insert"
    /\ IF \E r \in users.table : r.username = users.th[t].username
       THEN users' = [users EXCEPT !.th[t].pc = "raised"]
       ELSE users' = [users EXCEPT
                        !.th[t].pc = "refetch",
                        !.table = @ \cup {UserRow(users.th[t].user_id,
                                                  users.th[t].username,
                                                  users.th[t].display_name)}]
    /\ UNCHANGED usersframe

\* return self._fetch_user(user_id=user_id).
EnsureUserReturn(t) ==
    /\ users.pc = "threads"
    /\ users.th[t].pc = "refetch"
    /\ users' = [users EXCEPT
                   !.th[t].pc = "returned",
                   !.th[t].result = _fetch_user(users.table, "id", users.th[t].user_id)]
    /\ UNCHANGED usersframe

NextUsers ==
    \E t \in Threads : EnsureUserFetch(t) \/ EnsureUserInsert(t) \/ EnsureUserReturn(t)

SpecUsers == InitUsers /\ [][NextUsers]_vars

\* --------------------------------------------------------------- C36
\* C36: when the two threads call ensure_user concurrently for the same
\* username that was not stored before, both calls return, both return the
\* same row, and exactly one row for that username exists afterwards.
C36_BothCallsReturnTheRow ==
    (/\ users.th[1].username = users.th[2].username
     /\ \A t \in Threads : users.th[t].pc \in {"returned", "raised"}
     /\ \A r \in users.table : r.username = users.th[1].username => r.id[1] = "uuid4")
    => /\ \A t \in Threads : users.th[t].pc = "returned"
       /\ users.th[1].result = users.th[2].result
       /\ users.th[1].result # NoUser
       /\ Cardinality({r \in users.table : r.username = users.th[1].username}) = 1

\* ------------------------------------------- DAG.py: the stand-alone engine
\* execute_simplified_graph of DAG.py builds and validates the graph as the
\* engine of the app package does, and has the same node functions for the
\* kinds used here and the same execution loop, without an observer.  Its
\* "dfs" branch collects the postorder into order and leaves it as it is
\* (order = order).
dfs_order_standalone(g) == dfs_postorder(g)

order_of_standalone(g, strategy) ==
    IF strategy = "kahn" THEN topological_sort(g) ELSE dfs_order_standalone(g)

DagStandaloneValidate ==
    /\ dag.pc = "called"
    /\ LET g == dag.simplified
       IN  IF ~Validates(g)
           THEN dag' = Dag("PipelineError", g, Validation(g), dag.runs)
           ELSE dag' = Dag("executing", g, NoError,
                           [s \in Strategies |->
                              Run(order_of_standalone(g, s),
                                  [n \in NodeIds(g) |-> NoValue],
                                  0, "executing", <<>>)])
    /\ UNCHANGED dagframe

\* for nid in order: outputs[p] of a predecessor that has not run yet is a
\* KeyError that ends the call, and so does an exception raised by fn;
\* otherwise the output is stored.
DagStandaloneExecuteNode(s) ==
    /\ dag.pc = "executing"
    /\ dag.runs[s].status = "executing"
    /\ LET g == dag.simplified
           r == dag.runs[s]
           k == r.done + 1
           round == ExecuteNode(g, r.order, k, r.outputs)
       IN  IF k > Len(r.order)
           THEN dag' = [dag EXCEPT !.runs[s].status = "returned"]
           ELSE IF ~(Elems(predecessors(g, r.order[k])) \subseteq Completed(r.order, k))
           THEN dag' = [dag EXCEPT !.runs[s].status = "KeyError"]
           ELSE IF round.raised
           THEN dag' = [dag EXCEPT !.runs[s].status = "PipelineError"]
           ELSE dag' = [dag EXCEPT
                          !.runs[s].outputs[r.order[k]] = round.output,
                          !.runs[s].done = k]
    /\ UNCHANGED dagframe

NextDagStandalone ==
    DagStandaloneValidate \/ \E s \in Strategies : DagStandaloneExecuteNode(s)

SpecDagStandalone == InitDag /\ [][NextDagStandalone]_vars

\* --------------------------------------------------------------- C37
\* C37: in DAG.py, the order derived under "dfs" places every node after
\* all of its predecessors, so no node's input is assembled before the
\* outputs of its predecessors are stored.
C37_StandaloneDfsRunsInOrder ==
    dag.pc = "executing" =>
        LET r == dag.runs["dfs"]
        IN  /\ \A k \in 1..Len(r.order) :
                    Elems(predecessors(dag.simplified, r.order[k]))
                        \subseteq {r.order[j] : j \in 1..(k - 1)}
            /\ r.status # "KeyError"

\* ------------------------------ server.py: a server that has run for a while
\* SERVER_STATE as earlier 103/104 requests and at most one 106 request per
\* execution leave it: executions created in the order of their ids, each
\* running or stopped, and active_executions counting the running ones.
InitStandaloneStored ==
    /\ \E execs \in [ExecIds -> {"none", "running", "stopped"}] :
          /\ \A e, f \in ExecIds : (e < f /\ execs[e] = "none") => execs[f] = "none"
          /\ SERVER_STATE =
                [default_server_state_standalone EXCEPT
                    !.executions = execs,
                    !.active_executions =
                        Cardinality({e \in ExecIds : execs[e] = "running"})]
    /\ APP_STATE = default_server_state
    /\ db = [e \in ExecIds |-> NoRow]
    /\ error_logs = {}
    /\ task = [e \in ExecIds |-> NoTask]
    /\ post = [c \in Conns |-> 0]
    /\ lock = [c \in Conns |-> "free"]
    /\ outq = [c \in Conns |-> <<>>]
    /\ statusSending = [c \in Conns |-> NoFrame]
    /\ execFrames = [e \in ExecIds |-> <<>>]
    /\ pc = [c \in Conns |-> "handshake"]
    /\ closeCode = [c \in Conns |-> 0]
    /\ hello = [c \in Conns |-> NoHello]
    /\ last_message_id = [c \in Conns |-> 0]
    /\ nrecv = 0
    /\ lastIn = [c \in Conns |-> NoIn]
    /\ pending = [c \in Conns |-> NoFrame]
    /\ pendingKind = [c \in Conns |-> "none"]
    /\ emitted = [c \in Conns |-> <<>>]
    /\ wire = [c \in Conns |-> <<>>]
    /\ dag = NoDag
    /\ codec = NoCodec
    /\ users = NoUsers

\* One connection to that server.
NextStandaloneOne ==
    \/ Handshake(1)
    \/ Disconnect(1)
    \/ RecvParseError(1)
    \/ RecvBadId(1)
    \/ RecvRoute(1)
    \/ Send(1)

SpecStandaloneStored == InitStandaloneStored /\ [][NextStandaloneOne]_vars

\* --------------------------------------------------------------- C38
\* C38: in server.py, after any sequence of 103, 104 and 106 requests,
\* SERVER_STATE["active_executions"] is the number of executions whose
\* status is running, and it never exceeds max_concurrent_executions
\* (stopping an execution that is stopped already releases no slot).
C38_ActiveCountsRunning ==
    /\ SERVER_STATE.active_executions =
          Cardinality({e \in ExecIds : SERVER_STATE.executions[e] = "running"})
    /\ SERVER_STATE.active_executions <= SERVER_STATE.max_concurrent_executions

\* --------------------------------------------------------------- C39
\* C39: for an execution that ran to its end and was not stopped, a later
\* 107 request is answered 207 with the summary its terminal 207 frame
\* carried, as read back from the row (decode_summary of encode_summary),
\* and the row names the summary file.
C39_Answer(c) ==
    \A e \in ExecIds :
        (/\ pc[c] = "recv" /\ pc'[c] = "send"
         /\ lastIn'[c].accepted /\ lastIn'[c].type = 107
         /\ lastIn'[c].executionId = e
         /\ task[e].pc = "done"
         /\ db[e].status # "stopped"
         /\ Len(TerminalFrames(e)) = 1)
        => /\ TerminalFrames(e)[1].type = CODE_PIPELINE_FINISHED_OK
           /\ pending'[c].type = CODE_PIPELINE_FINISHED_OK
           /\ pending'[c].executionId = e
           /\ pending'[c].info = decode_summary(encode_summary("summary"))
           /\ db[e].output_file = "summary"

====
